---- MODULE Spec2Model ----
(***************************************************************************)
(* A model of atria's entity layer (atria/core/entities.py) together with  *)
(* the Room entity (atria/core/world.py): the weak instance registry, the  *)
(* per-key LRU cache, the backing store, and the operations that move      *)
(* entities between them.                                                  *)
(*                                                                         *)
(* One behaviour is about one entity class, chosen by Init: "Room", whose  *)
(* storage key is computed from the x, y, z attributes, or "SomeEntity",   *)
(* whose storage key is its uid.                                           *)
(*                                                                         *)
(* Python values: Unset is the empty tuple, an integer attribute value v   *)
(* is the one-element tuple <<v>>, a string is the tuple of its            *)
(* characters.  Dictionaries are functions on the set of their keys.       *)
(***************************************************************************)
EXTENDS Integers, Sequences, FiniteSets, TLC

VARIABLES kind, time, uid_timecode, ents, instances, cache, cache_size, store,
          last, issued, registered, schema, slots, writers

vars == <<kind, time, uid_timecode, ents, instances, cache, cache_size, store,
          last, issued, registered, schema, slots, writers>>

(* ------------------------------ bounds -------------------------------- *)
MaxObj == 2
MaxFresh == 2
MaxX == 1
CacheSize == 2
StartTime == 1
MaxN == 2
MaxTime == 3
MaxUids == 3

Objs == 1..MaxObj
NoObj == 0
XVals == 0..MaxX
YVals == {0}
ZVals == {0}
VersionVals == {1, 2}

(* ------------------------------ values -------------------------------- *)
Unset == <<>>
Box(v) == <<v>>
NoUid == <<>>
NoTags == <<>>

uid_timecode_multiplier == 10000

uid_timecode_charset ==
  <<"0","1","2","3","4","5","6","7","8","9","a","A","b","B","c","C","d","D",
    "e","E","f","F","g","G","h","H","i","j","J","k","K","L","m","M",
    "n","N","o","p","P","q","Q","r","R","s","t","T","u","U","v","V","w","W",
    "x","X","y","Y","z","Z">>

RECURSIVE int_to_base_n(_, _)
int_to_base_n(n, charset) ==
  IF n < Len(charset) THEN <<charset[n + 1]>>
  ELSE int_to_base_n(n \div Len(charset), charset)
         \o <<charset[(n % Len(charset)) + 1]>>

DecDigits == <<"0","1","2","3","4","5","6","7","8","9">>

\* "{}".format(n) for an integer n
RECURSIVE FormatInt(_)
FormatInt(n) ==
  IF n < 0 THEN <<"-">> \o FormatInt(-n)
  ELSE IF n < 10 THEN <<DecDigits[n + 1]>>
  ELSE FormatInt(n \div 10) \o <<DecDigits[(n % 10) + 1]>>

uid_code == IF kind = "Room" THEN "R" ELSE "S"

get_key_name == IF kind = "Room" THEN "coords" ELSE "uid"

\* the attributes of the merged schema, in the order serialize() emits them
AttrNames == IF kind = "Room" THEN <<"x", "y", "z", "version">>
             ELSE <<"version">>

(* ------------------------------ the key ------------------------------- *)
get_coord_str(e) ==
  IF e.x = Unset \/ e.y = Unset \/ e.z = Unset THEN Unset
  ELSE FormatInt(e.x[1]) \o <<",">> \o FormatInt(e.y[1]) \o <<",">>
         \o FormatInt(e.z[1])

Key(e) == IF kind = "Room" THEN get_coord_str(e) ELSE e.uid

(* ------------------------------ the store ----------------------------- *)
store_has(s, key) == key \in DOMAIN s
store_put(s, key, data) ==
  [k \in (DOMAIN s) \cup {key} |-> IF k = key THEN data ELSE s[k]]
store_delete(s, key) == [k \in (DOMAIN s) \ {key} |-> s[k]]

(* --------------------------- the LRU cache ---------------------------- *)
\* head of the sequence = most recently used
SeqRemove(s, i) == SubSeq(s, 1, i - 1) \o SubSeq(s, i + 1, Len(s))
CacheHas(c, key) == \E i \in 1..Len(c) : c[i].key = key
CacheIdx(c, key) == CHOOSE i \in 1..Len(c) : c[i].key = key
CachePeek(c, key) == c[CacheIdx(c, key)].obj
MoveToFront(c, i) == <<c[i]>> \o SeqRemove(c, i)
CacheTouch(c, key) == MoveToFront(c, CacheIdx(c, key))
CacheDel(c, key) == SeqRemove(c, CacheIdx(c, key))
\* del cache[key] when key in cache
CacheDrop(c, key) == IF CacheHas(c, key) THEN CacheDel(c, key) ELSE c
\* CacheInsert that makes room by dropping the most recently used entry
CacheInsertEvictsNewest(c, key, o) ==
  <<[key |-> key, obj |-> o]>>
    \o (IF Len(c) >= cache_size THEN SubSeq(c, 2, Len(c)) ELSE c)

\* a new entry takes the place of the least recently used one when full
CacheInsert(c, key, o) ==
  <<[key |-> key, obj |-> o]>>
    \o (IF Len(c) >= cache_size THEN SubSeq(c, 1, cache_size - 1) ELSE c)
CacheSet(c, key, o) == CacheInsert(CacheDrop(c, key), key, o)
CacheObjs(c) == {c[i].obj : i \in 1..Len(c)}

(* --------------------- the weak instance registry --------------------- *)
\* a dictionary uid -> object in insertion order
InstHas(inst, uid) == \E i \in 1..Len(inst) : inst[i].uid = uid
InstIdx(inst, uid) == CHOOSE i \in 1..Len(inst) : inst[i].uid = uid
InstGet(inst, uid) == inst[InstIdx(inst, uid)].obj
InstSet(inst, uid, o) ==
  IF InstHas(inst, uid) THEN [inst EXCEPT ![InstIdx(inst, uid)].obj = o]
  ELSE Append(inst, [uid |-> uid, obj |-> o])
InstObjs(inst) == {inst[i].obj : i \in 1..Len(inst)}

RECURSIVE SeqFilterLive(_, _)
SeqFilterLive(s, live) ==
  IF s = <<>> THEN <<>>
  ELSE (IF Head(s).obj \in live THEN <<Head(s)>> ELSE <<>>)
         \o SeqFilterLive(Tail(s), live)

(* ------------------------------ worlds -------------------------------- *)
\* The mutable program state an operation works on.  ovf is set when an
\* operation would need more objects than the model has.
World == [ents |-> ents, inst |-> instances, cache |-> cache, store |-> store,
          tc |-> uid_timecode, ovf |-> FALSE]

FreeObj(w) ==
  IF \E o \in 1..slots : o \notin DOMAIN w.ents
    THEN CHOOSE o \in 1..slots : o \notin DOMAIN w.ents
                                /\ \A p \in 1..slots : p < o => p \in DOMAIN w.ents
    ELSE NoObj

\* Reference counting: an object lives while a caller holds it, the cache
\* holds it, or the running operation does (roots); a registry entry
\* disappears with the object it points to.
LiveObjs(w, roots) ==
  {o \in DOMAIN w.ents : w.ents[o].held} \cup CacheObjs(w.cache) \cup roots
KeepOnly(w, live) ==
  [w EXCEPT !.ents = [o \in (DOMAIN w.ents) \cap live |-> w.ents[o]],
            !.inst = SeqFilterLive(w.inst, live)]
CollectKeeping(w, roots) == KeepOnly(w, LiveObjs(w, roots))
\* Collect for a registry whose entries keep their entities alive
CollectKeepsRegistered(w) == CollectKeeping(w, InstObjs(w.inst))

Collect(w) == CollectKeeping(w, {})

Hold(w, o) == IF o \in DOMAIN w.ents THEN [w EXCEPT !.ents[o].held = TRUE] ELSE w

(* --------------------------- identifiers ------------------------------ *)
\* NextTimecode taking the clock's candidate whatever the counter holds
NextTimecodeAdoptsClock(big_time, tc) == big_time

\* NextTimecode counting on from the counter whatever the clock reads
NextTimecodeAlwaysIncrements(big_time, tc) == tc + 1

NextTimecode(big_time, tc) == IF big_time > tc THEN big_time ELSE tc + 1
make_uid_timecode(tc) == NextTimecode(time * uid_timecode_multiplier, tc)

make_uid(tc) ==
  <<uid_code, "-">> \o int_to_base_n(make_uid_timecode(tc), uid_timecode_charset)

(* ------------------------- attribute writes --------------------------- *)
SetTag(tags, name, value) ==
  [t \in (DOMAIN tags) \cup {name} |-> IF t = name THEN value ELSE tags[t]]
DelTag(tags, name) == [t \in (DOMAIN tags) \ {name} |-> tags[t]]

\* CommitMove without the removal of the cache slot under the old key
CommitMoveKeepsOldSlot(w, o, e1, old_key, new_key) ==
  IF new_key # old_key
    THEN [w EXCEPT !.ents[o] = [e1 EXCEPT !.tags = SetTag(@, "_old_key", old_key),
                                          !.dirty = TRUE],
                   !.cache = CacheSet(@, new_key, o)]
    ELSE [w EXCEPT !.ents[o] = [e1 EXCEPT !.dirty = TRUE]]

\* CommitMove marking the entity dirty only when the write changed it
CommitMoveDirtyOnChange(w, o, e1, old_key, new_key) ==
  IF new_key # old_key
    THEN [w EXCEPT !.ents[o] = [e1 EXCEPT !.tags = SetTag(@, "_old_key", old_key),
                                          !.dirty = TRUE],
                   !.cache = CacheSet(CacheDrop(@, old_key), new_key, o)]
    ELSE [w EXCEPT !.ents[o] = [e1 EXCEPT !.dirty = (@ \/ e1 # w.ents[o])]]

\* DataBlob._set_attr_val after the value is stored: e1 is the entity with
\* the new value; key migration, then dirty.
CommitMove(w, o, e1, old_key, new_key) ==
  IF new_key # old_key
    THEN [w EXCEPT !.ents[o] = [e1 EXCEPT !.tags = SetTag(@, "_old_key", old_key),
                                          !.dirty = TRUE],
                   !.cache = CacheSet(CacheDrop(@, old_key), new_key, o)]
    ELSE [w EXCEPT !.ents[o] = [e1 EXCEPT !.dirty = TRUE]]

CommitStored(w, o, e1, old_key) == CommitMove(w, o, e1, old_key, Key(e1))

\* DataBlob._set_attr_val from the point where the value is final
CommitAttr(w, o, name, value) ==
  CommitStored(w, o, [w.ents[o] EXCEPT ![name] = value], Key(w.ents[o]))

(* --------------------- serialize and deserialize ---------------------- *)
BlobSerialize(e) == [a \in {AttrNames[i] : i \in 1..Len(AttrNames)} |-> e[a]]

Serialize(e) ==
  BlobSerialize(e) @@ [uid |-> e.uid, flags |-> e.flags, tags |-> e.tags]

\* DataBlob.deserialize: the attributes of data, in data's order, are
\* committed unvalidated
RECURSIVE BlobDeserialize(_, _, _, _)
BlobDeserialize(w, o, data, names) ==
  IF names = <<>> THEN w
  ELSE IF Head(names) \in DOMAIN data
    THEN BlobDeserialize(CommitAttr(w, o, Head(names), data[Head(names)]),
                         o, data, Tail(names))
    ELSE BlobDeserialize(w, o, data, Tail(names))

\* DeserializeReserved that leaves the identifier entry unread
DeserializeKeepsUid(e, data) ==
  [e EXCEPT
     !.flags = IF "flags" \in DOMAIN data THEN @ \cup data.flags ELSE @,
     !.tags = IF "tags" \in DOMAIN data THEN data.tags ELSE @,
     !.dirty = IF ("flags" \in DOMAIN data /\ data.flags # {})
                  \/ "tags" \in DOMAIN data
               THEN TRUE ELSE @]

\* Entity.deserialize, the reserved entries
DeserializeReserved(e, data) ==
  [e EXCEPT
     !.uid = IF "uid" \in DOMAIN data THEN data.uid ELSE @,
     !.flags = IF "flags" \in DOMAIN data THEN @ \cup data.flags ELSE @,
     !.tags = IF "tags" \in DOMAIN data THEN data.tags ELSE @,
     !.dirty = IF ("flags" \in DOMAIN data /\ data.flags # {})
                  \/ "tags" \in DOMAIN data
               THEN TRUE ELSE @]

Deserialize(w, o, data) ==
  BlobDeserialize([w EXCEPT !.ents[o] = DeserializeReserved(@, data)],
                  o, data, AttrNames)

(* ---------------------------- construction ---------------------------- *)
BlankEntity(savable) ==
  [uid |-> NoUid, flags |-> {}, tags |-> NoTags, version |-> Box(1),
   x |-> Unset, y |-> Unset, z |-> Unset,
   dirty |-> FALSE, savable |-> savable, active |-> FALSE, held |-> FALSE]

InitData(w, o, hasData, data) == IF hasData THEN Deserialize(w, o, data) ELSE w

InitUid(w, o) ==
  IF w.ents[o].uid = NoUid
    THEN [w EXCEPT !.ents[o].uid = make_uid(w.tc), !.tc = make_uid_timecode(w.tc)]
    ELSE w

InitInstances(w, o) == [w EXCEPT !.inst = InstSet(@, w.ents[o].uid, o)]

InitCacheAt(w, o, key) ==
  IF ~CacheHas(w.cache, key) THEN [w EXCEPT !.cache = CacheSet(@, key, o)] ELSE w

InitCache(w, o) == InitCacheAt(w, o, Key(w.ents[o]))

InitAt(w, o, hasData, data, savable) ==
  IF o = NoObj THEN [w |-> [w EXCEPT !.ovf = TRUE], obj |-> NoObj]
  ELSE [w |-> InitCache(InitInstances(InitUid(InitData(
                 [w EXCEPT !.ents = (o :> BlankEntity(savable)) @@ @],
                 o, hasData, data), o), o), o),
        obj |-> o]

\* Entity.__init__; returns the world and the new object
EntityInit(w, hasData, data, savable) == InitAt(w, FreeObj(w), hasData, data, savable)

(* -------------------------------- load -------------------------------- *)
\* the first instance, in registry order, whose key is the given one
FirstAt(w, hits) ==
  IF hits = {} THEN NoObj
  ELSE w.inst[CHOOSE i \in hits : \A j \in hits : i <= j].obj

InstScan(w, key) ==
  FirstAt(w, {i \in 1..Len(w.inst) : Key(w.ents[w.inst[i].obj]) = key})

\* entity = cls(data); entity._dirty = False
Materialized(r) ==
  IF r.obj = NoObj THEN [w |-> r.w, obj |-> NoObj, src |-> "none"]
  ELSE [w |-> [r.w EXCEPT !.ents[r.obj].dirty = FALSE], obj |-> r.obj,
        src |-> "store"]

LoadStore(w, key) ==
  IF store_has(w.store, key)
    THEN Materialized(EntityInit(w, TRUE, w.store[key], TRUE))
    ELSE [w |-> w, obj |-> NoObj, src |-> "none"]

LoadScan(w, key, scanned) ==
  IF scanned # NoObj THEN [w |-> w, obj |-> scanned, src |-> "scan"]
  ELSE LoadStore(w, key)

\* LoadFind that looks in memory whatever from_cache says
LoadFindIgnoresFlag(w, key, from_cache) ==
  IF get_key_name = "uid" /\ InstHas(w.inst, key)
    THEN [w |-> w, obj |-> InstGet(w.inst, key), src |-> "uid"]
  ELSE IF CacheHas(w.cache, key)
    THEN [w |-> [w EXCEPT !.cache = CacheTouch(@, key)],
          obj |-> CachePeek(w.cache, key), src |-> "cache"]
  ELSE IF get_key_name # "uid"
    THEN LoadScan(w, key, InstScan(w, key))
  ELSE LoadStore(w, key)

\* LoadFind that goes to the store whatever from_cache says
LoadFindAlwaysStore(w, key, from_cache) == LoadStore(w, key)

\* Entity.load._find; src tells where the result came from: "uid", "cache",
\* "scan", "store" or "none"
LoadFind(w, key, from_cache) ==
  IF from_cache /\ get_key_name = "uid" /\ InstHas(w.inst, key)
    THEN [w |-> w, obj |-> InstGet(w.inst, key), src |-> "uid"]
  ELSE IF from_cache /\ CacheHas(w.cache, key)
    THEN [w |-> [w EXCEPT !.cache = CacheTouch(@, key)],
          obj |-> CachePeek(w.cache, key), src |-> "cache"]
  ELSE IF from_cache /\ get_key_name # "uid"
    THEN LoadScan(w, key, InstScan(w, key))
  ELSE LoadStore(w, key)

\* Entity.load after _find: a found entity is put in the cache under key
LoadFound(f, key) ==
  IF f.obj # NoObj /\ ~CacheHas(f.w.cache, key)
    THEN [f EXCEPT !.w.cache = CacheSet(@, key, f.obj)]
    ELSE f

EntityLoad(w, key, from_cache) == LoadFound(LoadFind(w, key, from_cache), key)

\* LoadRaises that returns the default whatever it is
LoadNeverRaises(obj, default) == FALSE

\* the end of Entity.load when nothing was found: an exception type is
\* raised, anything else is returned
LoadRaises(obj, default) == obj = NoObj /\ default = "KeyError"

(* -------------------------------- find -------------------------------- *)
\* Match that requires every comparison whatever the policy
MatchAlwaysAll(match, bools) == \A j \in DOMAIN bools : bools[j]

\* match is the builtin all or any, applied to the list of comparisons
Match(match, bools) ==
  IF match = "all" THEN \A j \in DOMAIN bools : bools[j]
  ELSE \E j \in DOMAIN bools : bools[j]

\* [getattr(entity, _attr) == _value for _attr, _value in pairs]
EntityMatches(e, pairs, match) ==
  Match(match, [j \in 1..Len(pairs) |-> e[pairs[j][1]] = pairs[j][2]])

\* [data.get(_attr) == _value for _attr, _value in pairs]
DataMatches(data, pairs, match) ==
  Match(match, [j \in 1..Len(pairs) |->
                  /\ pairs[j][1] \in DOMAIN data
                  /\ data[pairs[j][1]] = pairs[j][2]])

AddIf(hit, found, o) == IF hit THEN found \cup {o} ELSE found

\* the scan of cls._instances.values(), from position i on
RECURSIVE FindInstances(_, _, _, _, _, _, _)
FindInstStep(w, pairs, match, n, i, hit, f1, checked) ==
  IF hit /\ n > 0 /\ Cardinality(f1) >= n
    THEN [found |-> f1, checked |-> checked]
    ELSE FindInstances(w, pairs, match, n, i + 1, f1,
                       checked \cup {Key(w.ents[w.inst[i].obj])})

FindInstAt(w, pairs, match, n, i, hit, found, checked) ==
  FindInstStep(w, pairs, match, n, i, hit, AddIf(hit, found, w.inst[i].obj), checked)

FindInstances(w, pairs, match, n, i, found, checked) ==
  IF i > Len(w.inst) THEN [found |-> found, checked |-> checked]
  ELSE FindInstAt(w, pairs, match, n, i,
                  EntityMatches(w.ents[w.inst[i].obj], pairs, match), found, checked)

\* the scan of cls._store.keys(), given as the sequence keys
RECURSIVE FindStore(_, _, _, _, _, _, _)
FindStoreNext(w, pairs, match, n, keys, checked, found) ==
  IF w.ovf \/ (n > 0 /\ Cardinality(found) >= n)
    THEN [w |-> w, found |-> found]
    ELSE FindStore(w, pairs, match, n, Tail(keys), checked, found)

FindStoreKeep(r, pairs, match, n, keys, checked, found) ==
  FindStoreNext(CollectKeeping(r.w, found), pairs, match, n, keys, checked, found)

FindStoreAdd(r, pairs, match, n, keys, checked, found) ==
  FindStoreKeep(r, pairs, match, n, keys, checked,
                IF r.obj = NoObj THEN found ELSE found \cup {r.obj})

FindStore(w, pairs, match, n, keys, checked, found) ==
  IF keys = <<>> THEN [w |-> w, found |-> found]
  ELSE IF Head(keys) \in checked \/ ~DataMatches(w.store[Head(keys)], pairs, match)
    THEN FindStore(w, pairs, match, n, Tail(keys), checked, found)
    ELSE FindStoreAdd(Materialized(EntityInit(w, TRUE, w.store[Head(keys)], TRUE)),
                      pairs, match, n, keys, checked, found)

\* FindAfterInstances that scans the store whatever the limit
FindAfterInstancesAlwaysStore(w, m, pairs, use_store, match, n, keys) ==
  IF use_store
    THEN FindStore(w, pairs, match, n, keys, m.checked, m.found)
    ELSE [w |-> w, found |-> m.found]

FindAfterInstances(w, m, pairs, use_store, match, n, keys) ==
  IF use_store /\ (n = 0 \/ Cardinality(m.found) < n)
    THEN FindStore(w, pairs, match, n, keys, m.checked, m.found)
    ELSE [w |-> w, found |-> m.found]

\* Entity.find; the result is the set found (for n = 1 its only element,
\* if any, is what the caller gets)
EntityFind(w, pairs, use_cache, use_store, match, n, keys) ==
  FindAfterInstances(w,
                     IF use_cache
                       THEN FindInstances(w, pairs, match, n, 1, {}, {})
                       ELSE [found |-> {}, checked |-> {}],
                     pairs, use_store, match, n, keys)

(* ------------------------------ validate ------------------------------ *)
\* Room.load(new_coords, default=None) is falsy
CoordFree(r) == [w |-> r.w, ok |-> (r.obj = NoObj)]

\* RoomX/RoomY/RoomZ._validate for an integer candidate: the coordinates
\* the room would have must be free.  Returns the world (load may have
\* materialized a room) and whether the value is accepted.
CoordCollide(w, o, name, value) ==
  IF \A a \in {"x", "y", "z"} \ {name} : w.ents[o][a] # Unset
    THEN CoordFree(EntityLoad(w, get_coord_str([w.ents[o] EXCEPT ![name] = value]),
                              TRUE))
    ELSE [w |-> w, ok |-> TRUE]

\* the string "123", a candidate that is not an integer
Str123 == <<"1", "2", "3">>

\* isinstance(new_value, int), for a boxed integer or a string
IsInt(value) == Len(value) = 1

\* RoomX/RoomY/RoomZ._validate: CoordAttribute._validate rejects a candidate
\* that is not an integer, then the coordinates must be free
CoordValidate(w, o, name, value) ==
  IF ~IsInt(value) THEN [w |-> w, ok |-> FALSE]
  ELSE CoordCollide(w, o, name, value)

AttrValidate(w, o, name, value) ==
  IF name \in {"x", "y", "z"} THEN CoordValidate(w, o, name, value)
  ELSE [w |-> w, ok |-> TRUE]

\* SetAttrChecked committing the candidate although the validator raised
SetAttrCheckedCommits(v, o, name, value) ==
  [w |-> CommitAttr(v.w, o, name, value), ok |-> v.ok]

SetAttrChecked(v, o, name, value) ==
  IF v.ok THEN [w |-> CommitAttr(v.w, o, name, value), ok |-> TRUE]
  ELSE [w |-> v.w, ok |-> FALSE]

\* DataBlob._set_attr_val(name, value) as the property setter calls it
SetAttrVal(w, o, name, value) ==
  SetAttrChecked(AttrValidate(w, o, name, value), o, name, value)

\* the writes of one statement, in order, stopping at the first that raises
RECURSIVE SetAttrSeq(_, _, _)
SetAttrRest(r, o, writes) == IF r.ok THEN SetAttrSeq(r.w, o, writes) ELSE r

SetAttrSeq(w, o, writes) ==
  IF writes = <<>> THEN [w |-> w, ok |-> TRUE]
  ELSE SetAttrRest(SetAttrVal(w, o, Head(writes)[1], Head(writes)[2]),
                   o, Tail(writes))

\* str.split(",")
RECURSIVE Split(_, _)
Split(s, cur) ==
  IF s = <<>> THEN <<cur>>
  ELSE IF Head(s) = "," THEN <<cur>> \o Split(Tail(s), <<>>)
  ELSE Split(Tail(s), Append(cur, Head(s)))

DigitVal(c) == CHOOSE d \in 0..9 : DecDigits[d + 1] = c

\* int(s) for a decimal numeral
RECURSIVE ParseNat(_, _)
ParseNat(s, acc) ==
  IF s = <<>> THEN acc ELSE ParseNat(Tail(s), acc * 10 + DigitVal(Head(s)))
ParseInt(s) == IF Head(s) = "-" THEN 0 - ParseNat(Tail(s), 0) ELSE ParseNat(s, 0)

SetCoords(w, o, parts) ==
  SetAttrSeq(w, o, <<<<"x", Box(ParseInt(parts[1]))>>,
                     <<"y", Box(ParseInt(parts[2]))>>,
                     <<"z", Box(ParseInt(parts[3]))>>>>)

\* Room.set_coord_from_str
set_coord_from_str(w, o, coord_str) == SetCoords(w, o, Split(coord_str, <<>>))

(* -------------------------------- save -------------------------------- *)
\* self._store and self._savable; the kind "Plain" is the test entity type
\* without a store (Entity._store = None), for which only construction,
\* writes and save are modelled
is_savable(e) == kind # "Plain" /\ e.savable

HasOldKey(e) == "_old_key" \in DOMAIN e.tags

\* Entity.save, the old key: its record is deleted, the tag removed
SaveRetire(w, o) ==
  IF HasOldKey(w.ents[o])
    THEN [w EXCEPT !.store = IF store_has(@, w.ents[o].tags["_old_key"])
                               THEN store_delete(@, w.ents[o].tags["_old_key"])
                               ELSE @,
                   !.ents[o].tags = DelTag(@, "_old_key")]
    ELSE w

\* SavePut writing the record without clearing the dirty flag
SavePutStaysDirty(w, o) ==
  [w EXCEPT !.store = store_put(@, Key(w.ents[o]), Serialize(w.ents[o]))]

\* Entity.save, the write: serialize, put, clear dirty
SavePut(w, o) ==
  [w EXCEPT !.store = store_put(@, Key(w.ents[o]), Serialize(w.ents[o])),
            !.ents[o].dirty = FALSE]

\* EntitySave without the test of is_savable
EntitySaveAlways(w, o) == SavePut(SaveRetire(w, o), o)

EntitySave(w, o) ==
  IF ~is_savable(w.ents[o]) THEN w ELSE SavePut(SaveRetire(w, o), o)

(* ------------------------------- revert ------------------------------ *)
\* RevertFrom without the comparison of the identifiers
RevertFromUnchecked(w, o, data) ==
  [w |-> [Deserialize(w, o, data) EXCEPT !.ents[o].dirty = FALSE],
   ok |-> TRUE, err |-> "none"]

\* Entity.revert once the record is read: the identifiers must agree, then
\* the record is deserialized into the entity and dirty is cleared
RevertFrom(w, o, data) ==
  IF w.ents[o].uid # data.uid
    THEN [w |-> w, ok |-> FALSE, err |-> "ValueError"]
    ELSE [w |-> [Deserialize(w, o, data) EXCEPT !.ents[o].dirty = FALSE],
          ok |-> TRUE, err |-> "none"]

\* Entity.revert; store.get(key) without a default raises KeyError when
\* there is no record
EntityRevert(w, o) ==
  IF ~store_has(w.store, Key(w.ents[o]))
    THEN [w |-> w, ok |-> FALSE, err |-> "KeyError"]
    ELSE RevertFrom(w, o, w.store[Key(w.ents[o])])

(* ------------------------------- clone -------------------------------- *)
\* data = self.serialize(); del data["uid"]
CloneData(e) == BlobSerialize(e) @@ [flags |-> e.flags, tags |-> e.tags]

CloneSet(s, obj) ==
  [w |-> s.w, obj |-> obj, ok |-> s.ok,
   err |-> IF s.ok THEN "none" ELSE "ValueError"]

\* new_entity.key = new_key: the key setter of a room is set_coord_from_str;
\* for a key that is the uid it is setattr(self, "uid", new_key), and uid is
\* a property without a setter
CloneKeyed(r, new_key) ==
  IF r.obj = NoObj THEN [w |-> r.w, obj |-> NoObj, ok |-> FALSE, err |-> "none"]
  ELSE IF get_key_name = "uid"
    THEN [w |-> r.w, obj |-> r.obj, ok |-> FALSE, err |-> "AttributeError"]
  ELSE CloneSet(set_coord_from_str(r.w, r.obj, new_key), r.obj)

\* EntityClone without the look for a record under new_key
EntityCloneUnchecked(w, o, new_key) ==
  CloneKeyed(EntityInit(w, TRUE, CloneData(w.ents[o]), TRUE), new_key)

\* Entity.clone; obj is the entity constructed, ok whether it is returned
EntityClone(w, o, new_key) ==
  IF store_has(w.store, new_key)
    THEN [w |-> w, obj |-> NoObj, ok |-> FALSE, err |-> "KeyError"]
    ELSE CloneKeyed(EntityInit(w, TRUE, CloneData(w.ents[o]), TRUE), new_key)

(* ------------------------------- delete ------------------------------- *)
\* EntityDelete that also drops the entity from the key cache
EntityDeleteForgets(w, o) ==
  [w EXCEPT !.store = store_delete(@, Key(w.ents[o])),
            !.cache = CacheDrop(@, Key(w.ents[o]))]

\* Entity.delete
EntityDelete(w, o) == [w EXCEPT !.store = store_delete(@, Key(w.ents[o]))]

(* ---------------------------- the batch sweep ------------------------- *)
\* the classes registered with ENTITIES: Room is, the test class is not
IsRegistered == kind = "Room"

\* EntityManager.save over the instances of one class, from position i on
RECURSIVE SweepFrom(_, _, _)
\* SweepVisit saving and counting every instance it visits
SweepVisitAll(w, i, count, due) ==
  SweepFrom(EntitySave(w, w.inst[i].obj), i + 1, count + 1)

SweepVisit(w, i, count, due) ==
  IF due THEN SweepFrom(EntitySave(w, w.inst[i].obj), i + 1, count + 1)
  ELSE SweepFrom(w, i + 1, count)

SweepFrom(w, i, count) ==
  IF i > Len(w.inst) THEN [w |-> w, count |-> count]
  ELSE SweepVisit(w, i, count,
                  is_savable(w.ents[w.inst[i].obj]) /\ w.ents[w.inst[i].obj].dirty)

\* EntityManager.save
ManagerSave(w) ==
  IF IsRegistered THEN SweepFrom(w, 1, 0) ELSE [w |-> w, count |-> 0]

(* ----------------------- registration of types ----------------------- *)
\* the classes offered to ENTITIES.register: entity classes by __name__ and
\* _uid_code, and a class that is not an entity
TypeDefs ==
  [name : {"Room", "Item", "Char"}, code : {"R", "I", "C"}, entity : {TRUE}]
    \cup {[name |-> "Thing", code |-> "T", entity |-> FALSE]}

\* ManagerRegister without the comparison of the codes
ManagerRegisterAnyCode(reg, t) ==
  IF ~t.entity THEN [reg |-> reg, err |-> "TypeError"]
  ELSE IF t.name \in DOMAIN reg THEN [reg |-> reg, err |-> "AlreadyExists"]
  ELSE [reg |-> (t.name :> t) @@ reg, err |-> "none"]

\* EntityManager.register on the dict reg of registered classes
ManagerRegister(reg, t) ==
  IF ~t.entity THEN [reg |-> reg, err |-> "TypeError"]
  ELSE IF t.name \in DOMAIN reg THEN [reg |-> reg, err |-> "AlreadyExists"]
  ELSE IF \E n \in DOMAIN reg : reg[n].code = t.code
    THEN [reg |-> reg, err |-> "KeyError"]
  ELSE [reg |-> (t.name :> t) @@ reg, err |-> "none"]

(* ----------------------- registration of fields ---------------------- *)
\* entity classes: Left and Right derive from Base, Leaf from Left and Right
Classes == {"Base", "Left", "Right", "Leaf"}

Parents(c) ==
  IF c = "Leaf" THEN {"Left", "Right"}
  ELSE IF c \in {"Left", "Right"} THEN {"Base"} ELSE {}

\* the class and the entity classes it derives from
Lineage(c) == {c} \cup Parents(c) \cup UNION {Parents(p) : p \in Parents(c)}

\* attributes every entity class has: Entity's properties and methods, and
\* the field registered on Entity itself
EntityAttrs == {"uid", "version"}

\* hasattr(cls, name): the properties set by registrations on the class and
\* on the classes it derives from
HasAttr(sch, c, name) ==
  \/ name \in EntityAttrs
  \/ \E a \in Lineage(c) : name \in sch[a].attrs \cup sch[a].blobs

\* _EntityMeta.register_attr (what = "attrs") and register_blob ("blobs"):
\* the property is set on the class, and the attribute class is stored in
\* the _attrs dict of the class's base blob (dict maps a name to the class
\* the attribute was registered on)
RegisterName(sch, c, name, what) ==
  IF HasAttr(sch, c, name) THEN [sch |-> sch, ok |-> FALSE]
  ELSE [sch |-> [sch EXCEPT ![c][what] = @ \cup {name},
                            ![c].dict = IF what = "attrs" THEN (name :> c) @@ @
                                        ELSE @],
        ok |-> TRUE]

\* the fields and sub-blobs of the value tree of a new instance of c:
\* _build_base_blob updates the blob with the schema of every class of the
\* lineage
Merged(sch, c) ==
  [attrs |-> UNION {sch[a].attrs : a \in Lineage(c)},
   blobs |-> UNION {sch[a].blobs : a \in Lineage(c)}]

\* cls.__bases__, in order
Bases(c) ==
  IF c = "Leaf" THEN <<"Left", "Right">>
  ELSE IF c \in {"Left", "Right"} THEN <<"Base">> ELSE <<>>

\* the classes whose schema _build_base_blob(c) applies, in the order it
\* applies them: the bases are visited first, and a class in `checked` is
\* not applied again
RECURSIVE BuildOrder(_, _)
BuildOrder(c, checked) ==
  LET b == Bases(c)
      first == IF Len(b) >= 1 THEN BuildOrder(b[1], checked) ELSE checked
      second == IF Len(b) >= 2 THEN BuildOrder(b[2], first) ELSE first
  IN IF \E i \in 1..Len(second) : second[i] = c THEN second
     ELSE Append(second, c)

\* cls._base_blob(self): DataBlob.__init__ takes the values from the class's
\* _attrs, which it does not copy, and instantiates a copy of _blobs
BlobOf(sch, k, c, tree) ==
  [attrs |-> IF k = c THEN tree.attrs ELSE sch[k].dict,
   blobs |-> [n \in sch[k].blobs |-> k]]

\* blob._update(cls._base_blob(self)) for the classes of order[i..]: the
\* entries of the given blob replace those of the same name. The _attrs of
\* the blob being built is the dict of the class c itself
RECURSIVE BuildBaseBlob(_, _, _, _, _)
BuildBaseBlob(sch, c, order, i, tree) ==
  IF i > Len(order) THEN tree
  ELSE BuildBaseBlob(sch, c, order, i + 1,
         [attrs |-> BlobOf(sch, order[i], c, tree).attrs @@ tree.attrs,
          blobs |-> BlobOf(sch, order[i], c, tree).blobs @@ tree.blobs])

(* ------------------- a field write, step by step -------------------- *)
\* the callers that may be inside _set_attr_val at the same time
Procs == {1, 2}

Idle == [pc |-> "idle"]
AllIdle == \A p \in Procs : writers.pos[p] = Idle

\* WriteStepWorld leaving the cache slot of the old key in place
WriteStepKeepsOldSlot(w, o, s) ==
  IF s.pc = "read" THEN [w |-> w, s |-> [s EXCEPT !.pc = "commit", !.old_key = Key(w.ents[o])]]
  ELSE IF s.pc = "commit"
    THEN [w |-> [w EXCEPT !.ents[o].x = s.value], s |-> [s EXCEPT !.pc = "tag"]]
  ELSE IF s.pc = "tag"
    THEN IF Key(w.ents[o]) # s.old_key
           THEN [w |-> [w EXCEPT !.ents[o].tags = SetTag(@, "_old_key", s.old_key)],
                 s |-> [s EXCEPT !.pc = "delete"]]
           ELSE [w |-> w, s |-> [s EXCEPT !.pc = "dirty"]]
  ELSE IF s.pc = "delete"
    THEN [w |-> w, s |-> [s EXCEPT !.pc = "insert"]]
  ELSE IF s.pc = "insert"
    THEN [w |-> [w EXCEPT !.cache = CacheSet(@, Key(w.ents[o]), o)],
          s |-> [s EXCEPT !.pc = "dirty"]]
  ELSE [w |-> [w EXCEPT !.ents[o].dirty = TRUE], s |-> Idle]

\* the next step of DataBlob._set_attr_val for a caller at position s, past
\* the hooks: old_key = entity.key; the assignment; the test of the key and
\* the _old_key tag; del cache[old_key]; cache[entity.key] = entity;
\* entity.dirty()
WriteStepWorld(w, o, s) ==
  IF s.pc = "read" THEN [w |-> w, s |-> [s EXCEPT !.pc = "commit", !.old_key = Key(w.ents[o])]]
  ELSE IF s.pc = "commit"
    THEN [w |-> [w EXCEPT !.ents[o].x = s.value], s |-> [s EXCEPT !.pc = "tag"]]
  ELSE IF s.pc = "tag"
    THEN IF Key(w.ents[o]) # s.old_key
           THEN [w |-> [w EXCEPT !.ents[o].tags = SetTag(@, "_old_key", s.old_key)],
                 s |-> [s EXCEPT !.pc = "delete"]]
           ELSE [w |-> w, s |-> [s EXCEPT !.pc = "dirty"]]
  ELSE IF s.pc = "delete"
    THEN [w |-> [w EXCEPT !.cache = CacheDrop(@, s.old_key)],
          s |-> [s EXCEPT !.pc = "insert"]]
  ELSE IF s.pc = "insert"
    THEN [w |-> [w EXCEPT !.cache = CacheSet(@, Key(w.ents[o]), o)],
          s |-> [s EXCEPT !.pc = "dirty"]]
  ELSE [w |-> [w EXCEPT !.ents[o].dirty = TRUE], s |-> Idle]

(* ------------------------------ actions ------------------------------- *)
Install(w) ==
  /\ ~w.ovf
  /\ ents' = w.ents
  /\ instances' = w.inst
  /\ cache' = w.cache
  /\ store' = w.store
  /\ uid_timecode' = w.tc
  /\ UNCHANGED <<kind, time, cache_size, issued, registered, schema, slots, writers>>

\* Install for a step of a caller p, which moves to position s
InstallStep(w, p, s, mix) ==
  /\ ~w.ovf
  /\ ents' = w.ents
  /\ instances' = w.inst
  /\ cache' = w.cache
  /\ store' = w.store
  /\ uid_timecode' = w.tc
  /\ writers' = [pos |-> [writers.pos EXCEPT ![p] = s], mixed |-> mix]
  /\ UNCHANGED <<kind, time, cache_size, issued, registered, schema, slots>>

\* the number of identifiers generated so far
Made == IF uid_timecode = 0 THEN 0
        ELSE uid_timecode - StartTime * uid_timecode_multiplier + 1

Held == {o \in DOMAIN ents : ents[o].held}

CoordKeys(xs) ==
  {FormatInt(a) \o <<",">> \o FormatInt(b) \o <<",">> \o FormatInt(c)
     : a \in xs, b \in YVals, c \in ZVals}

UidKeys ==
  {<<uid_code, "-">>
     \o int_to_base_n(StartTime * uid_timecode_multiplier + i, uid_timecode_charset)
     : i \in 0..(MaxFresh - 1)}

\* the keys given to load and to the key setter
AllKeys(xs) == IF kind = "Room" THEN {Unset} \cup CoordKeys(xs) ELSE UidKeys

\* the attribute the model writes one at a time: a room's x, and the
\* version of an entity whose key is its uid
WrittenName == IF kind = "Room" THEN "x" ELSE "version"
WrittenVals(xs) == IF kind = "Room" THEN xs ELSE VersionVals

NewDone(r) ==
  /\ r.obj # NoObj
  /\ Install(Collect(Hold(r.w, r.obj)))
  /\ last' = [op |-> "new", obj |-> r.obj]

\* e = Cls(), while fewer than maxFresh identifiers have been generated
New(maxFresh) ==
  /\ Made < maxFresh
  /\ NewDone(EntityInit(World, FALSE, <<>>, TRUE))

SetDone(r, o) ==
  /\ Install(Collect(r.w))
  /\ last' = [op |-> "set", obj |-> o, ok |-> r.ok, old_key |-> Key(ents[o])]

\* e.<name> = v
SetAttr(o, name, v) ==
  /\ o \in Held
  /\ SetDone(SetAttrVal(World, o, name, Box(v)), o)

WriteDone(r, o, name, value) ==
  /\ Install(Collect(r.w))
  /\ last' = [op |-> "write", obj |-> o, ok |-> r.ok, name |-> name,
              value |-> value]

\* e.<name> = value for any field and any candidate, one write
Write(o, name, value) ==
  /\ o \in Held
  /\ WriteDone(SetAttrVal(World, o, name, value), o, name, value)

\* room.key = coord_str
SetKey(o, coord_str) ==
  /\ kind = "Room"
  /\ o \in Held
  /\ coord_str # Unset
  /\ SetDone(set_coord_from_str(World, o, coord_str), o)

LoadDone(r, key, from_cache, default) ==
  /\ Install(Collect(Hold(r.w, r.obj)))
  /\ last' = [op |-> "load", key |-> key, from_cache |-> from_cache,
              default |-> default, obj |-> r.obj, src |-> r.src,
              raised |-> LoadRaises(r.obj, default)]

\* Cls.load(key, from_cache, default); default is None or KeyError
Load(key, from_cache, default) ==
  LoadDone(EntityLoad(World, key, from_cache), key, from_cache, default)

\* e.save(), for an entity whose key is set
Save(o) ==
  /\ o \in Held
  /\ Key(ents[o]) # Unset
  /\ Install(EntitySave(World, o))
  /\ last' = [op |-> "save", obj |-> o]

\* the caller drops its reference to e
Drop(o) ==
  /\ o \in Held
  /\ Install(Collect([World EXCEPT !.ents[o].held = FALSE]))
  /\ last' = [op |-> "drop", obj |-> o]

\* e = Cls(savable=False)
NewUnsavable(maxFresh) ==
  /\ Made < maxFresh
  /\ NewDone(EntityInit(World, FALSE, <<>>, FALSE))

\* e.flags.add(flag): the flag is in the set afterwards, the entity dirty
AddFlag(o, flag) ==
  /\ o \in Held
  /\ Install([World EXCEPT !.ents[o].flags = @ \cup {flag},
                           !.ents[o].dirty = TRUE])
  /\ last' = [op |-> "flag", obj |-> o]

\* e.tags[name] = value: the tag is set, the entity dirty
AddTag(o, name, value) ==
  /\ o \in Held
  /\ Install([World EXCEPT !.ents[o].tags = SetTag(@, name, value),
                           !.ents[o].dirty = TRUE])
  /\ last' = [op |-> "tag", obj |-> o]

RevertDone(r, o) ==
  /\ Install(Collect(r.w))
  /\ last' = [op |-> "revert", obj |-> o, ok |-> r.ok, err |-> r.err]

\* e.revert()
Revert(o) ==
  /\ o \in Held
  /\ RevertDone(EntityRevert(World, o), o)

CloneDone(r, o, new_key) ==
  /\ Install(Collect(IF r.ok THEN Hold(r.w, r.obj) ELSE r.w))
  /\ last' = [op |-> "clone", obj |-> o, new_key |-> new_key,
              had |-> store_has(store, new_key), ok |-> r.ok, err |-> r.err,
              made |-> r.obj]

\* e.clone(new_key), while fewer than maxFresh identifiers have been
\* generated
Clone(o, new_key, maxFresh) ==
  /\ o \in Held
  /\ new_key # Unset
  /\ Made < maxFresh
  /\ CloneDone(EntityClone(World, o, new_key), o, new_key)

\* e.delete(), for an entity with a record under its key
Delete(o) ==
  /\ o \in Held
  /\ store_has(store, Key(ents[o]))
  /\ Install(EntityDelete(World, o))
  /\ last' = [op |-> "delete", obj |-> o]

SweepDone(r) ==
  /\ Install(r.w)
  /\ last' = [op |-> "sweep", count |-> r.count]

\* ENTITIES.save()
Sweep == SweepDone(ManagerSave(World))

\* the orders in which the store may enumerate its keys
KeyOrders(s) ==
  {q \in [1..Cardinality(DOMAIN s) -> DOMAIN s] :
     \A i, j \in DOMAIN q : i # j => q[i] # q[j]}

HoldAll(w, os) ==
  [w EXCEPT !.ents = [o \in DOMAIN @ |->
                        IF o \in os THEN [@[o] EXCEPT !.held = TRUE] ELSE @[o]]]

\* the criteria given to find
CritA == IF kind = "Room" THEN <<"x", Box(0)>> ELSE <<"version", Box(1)>>
CritB == IF kind = "Room" THEN <<"y", Box(0)>> ELSE <<"version", Box(2)>>
FindPairs == {<<CritA>>, <<CritB>>, <<CritA, CritB>>}

\* the end of Entity.find: found.pop() or None for n = 1, else list(found)
FindReturn(found, n) ==
  IF n = 1
    THEN IF found # {} THEN [shape |-> "entity", obj |-> CHOOSE o \in found : TRUE]
         ELSE [shape |-> "none", obj |-> NoObj]
    ELSE [shape |-> "list", obj |-> NoObj]

FindDone(r, pairs, use_cache, use_store, match, n) ==
  /\ Install(Collect(HoldAll(r.w, r.found)))
  /\ last' = [op |-> "find", pairs |-> pairs, use_cache |-> use_cache,
              use_store |-> use_store, match |-> match, n |-> n,
              found |-> r.found, ret |-> FindReturn(r.found, n)]

\* Cls.find(*pairs, cache=..., store=..., match=..., n=...)
Find(pairs, use_cache, use_store, match, n, keys) ==
  FindDone(EntityFind(World, pairs, use_cache, use_store, match, n, keys),
           pairs, use_cache, use_store, match, n)

\* the state after the entity class is defined: no instance, an empty cache
\* of the given size, an empty store
\* (slots is the number of objects the memory has room for)
InitSlots(kinds, size, n) ==
  /\ kind \in kinds
  /\ slots = n
  /\ time = StartTime
  /\ uid_timecode = 0
  /\ ents = <<>>
  /\ instances = <<>>
  /\ cache = <<>>
  /\ cache_size = size
  /\ store = <<>>
  /\ last = [op |-> "init"]
  /\ issued = <<>>
  /\ registered = <<>>
  /\ schema = [c \in Classes |-> [attrs |-> {}, blobs |-> {}, dict |-> <<>>]]
  /\ writers = [pos |-> [p \in Procs |-> Idle], mixed |-> FALSE]

\* ... with room for MaxObj objects at a time
InitWith(kinds, size) == InitSlots(kinds, size, MaxObj)

Init == InitWith({"Room", "SomeEntity"}, CacheSize)

Next ==
  \/ New(MaxFresh)
  \/ \E o \in Objs, v \in WrittenVals(XVals) : SetAttr(o, WrittenName, v)
  \/ \E o \in Objs, key \in AllKeys(XVals) : SetKey(o, key)
  \/ \E key \in AllKeys(XVals), fc \in BOOLEAN, d \in {"None", "KeyError"} :
       Load(key, fc, d)
  \/ \E o \in Objs : Save(o)
  \/ \E o \in Objs : Drop(o)

Spec == Init /\ [][Next]_vars

\* the same operations on a cache of one entry, so that entities are evicted
InitEvict == InitWith({"Room", "SomeEntity"}, 1)

SpecEvict == InitEvict /\ [][Next]_vars

\* e = Cls(active=True)
NewActive(maxFresh) ==
  /\ Made < maxFresh
  /\ NewDone([EntityInit(World, FALSE, <<>>, TRUE) EXCEPT
               !.w.ents = [o \in DOMAIN @ |->
                            IF o = FreeObj(World) THEN [@[o] EXCEPT !.active = TRUE]
                            ELSE @[o]]])

\* del Cls._caches[key_name][key]
Uncache(key) ==
  /\ CacheHas(cache, key)
  /\ Install(Collect([World EXCEPT !.cache = CacheDel(@, key)]))
  /\ last' = [op |-> "uncache", key |-> key]

\* Entity.all: the registered instances that are active
EntityAll(w) == {o \in InstObjs(w.inst) : w.ents[o].active}

\* Cls.all()
All ==
  /\ Install(World)
  /\ last' = [op |-> "all", ret |-> EntityAll(World)]

NextWeak ==
  \/ New(MaxFresh)
  \/ NewActive(MaxFresh)
  \/ \E o \in Objs, key \in AllKeys(XVals) : SetKey(o, key)
  \/ \E o \in Objs : Save(o)
  \/ \E o \in Objs : Drop(o)
  \/ \E key \in AllKeys(XVals) : Uncache(key)
  \/ \E key \in AllKeys(XVals) : Load(key, TRUE, "None")
  \/ \E keys \in KeyOrders(store) : Find(<<CritA>>, TRUE, TRUE, "all", 0, keys)
  \/ All

SpecWeak == Init /\ [][NextWeak]_vars

KeyDone(r, o, coord_str) ==
  /\ Install(Collect(r.w))
  /\ last' = [op |-> "key", obj |-> o, key |-> coord_str, ok |-> r.ok]

\* room.key = coord_str, the requested key kept
AssignKey(o, coord_str) ==
  /\ kind = "Room"
  /\ o \in Held
  /\ KeyDone(set_coord_from_str(World, o, coord_str), o, coord_str)

NextKey ==
  \/ New(MaxFresh)
  \/ \E o \in Objs, v \in XVals : SetAttr(o, "x", v)
  \/ \E o \in Objs, key \in CoordKeys(XVals) : AssignKey(o, key)
  \/ \E key \in CoordKeys(XVals) : Load(key, TRUE, "None")
  \/ \E o \in Objs : Save(o)
  \/ \E o \in Objs : Drop(o)

SpecKey == InitWith({"Room"}, CacheSize) /\ [][NextKey]_vars

\* e._savable = b
SetSavable(o, b) ==
  /\ o \in Held
  /\ ents[o].savable # b
  /\ Install([World EXCEPT !.ents[o].savable = b])
  /\ last' = [op |-> "savable", obj |-> o]

\* Cls._store = a store, for the type that had none
BindStore ==
  /\ kind = "Plain"
  /\ kind' = "SomeEntity"
  /\ last' = [op |-> "bind"]
  /\ UNCHANGED <<time, uid_timecode, ents, instances, cache, cache_size,
                 store, issued, registered, schema, slots, writers>>

NextSave ==
  \/ New(MaxFresh)
  \/ NewUnsavable(MaxFresh)
  \/ \E o \in Objs, b \in BOOLEAN : SetSavable(o, b)
  \/ BindStore
  \/ \E o \in Objs, v \in WrittenVals(XVals) : SetAttr(o, WrittenName, v)
  \/ \E o \in Objs, key \in AllKeys(XVals) : SetKey(o, key)
  \/ \E o \in Objs : Save(o)
  \/ \E o \in Objs : Drop(o)

SpecSave == InitWith({"Room", "SomeEntity", "Plain"}, CacheSize) /\ [][NextSave]_vars

\* one object more than the cache has entries, so that the cache chooses
\* among several entries the one it evicts
LruObjs == 1..(CacheSize + 1)

InitLru == InitSlots({"Room", "SomeEntity"}, CacheSize, CacheSize + 1)

NextLru ==
  \/ New(CacheSize + 1)
  \/ \E o \in LruObjs, key \in AllKeys(XVals) : SetKey(o, key)
  \/ \E key \in AllKeys(XVals) : Load(key, TRUE, "None")
  \/ \E o \in LruObjs : Drop(o)

SpecLru == InitLru /\ [][NextLru]_vars

\* one room moving over a wider range of coordinates
XValsWide == 0..(MaxX + 1)

InitRoom == InitWith({"Room"}, CacheSize)

NextMig ==
  \/ New(1)
  \/ \E o \in Objs, v \in XValsWide : SetAttr(o, "x", v)
  \/ \E o \in Objs, key \in AllKeys(XValsWide) : SetKey(o, key)
  \/ \E o \in Objs : Save(o)
  \/ \E o \in Objs : Drop(o)

SpecMig == InitRoom /\ [][NextMig]_vars

BeginDone(r, p, o, v) ==
  /\ r.ok
  /\ InstallStep(Collect(r.w), p, [pc |-> "read", obj |-> o, value |-> Box(v), old_key |-> Unset],
                 writers.mixed \/ ~AllIdle)
  /\ last' = [op |-> "begin", obj |-> o, proc |-> p]

\* room.x = v by the caller p, up to the return of the hooks
BeginWrite(p, o, v) ==
  /\ kind = "Room"
  /\ o \in Held
  /\ writers.pos[p] = Idle
  /\ BeginDone(AttrValidate(World, o, "x", Box(v)), p, o, v)

StepDone(r, p) ==
  /\ InstallStep(r.w, p, r.s, writers.mixed)
  /\ last' = [op |-> "step", proc |-> p, pc |-> writers.pos[p].pc]

\* the caller p takes its next step
WriteStep(p) ==
  /\ writers.pos[p] # Idle
  /\ StepDone(WriteStepWorld(World, writers.pos[p].obj, writers.pos[p]), p)

\* writes to a room's x by two callers whose steps may alternate; rooms are
\* built and keys assigned while no write is under way
NextSteps ==
  \/ AllIdle /\ New(1)
  \/ AllIdle /\ \E o \in Objs, key \in CoordKeys(XVals) : SetKey(o, key)
  \/ \E p \in Procs, o \in Objs, v \in XValsWide : BeginWrite(p, o, v)
  \/ \E p \in Procs : WriteStep(p)

SpecSteps == InitRoom /\ [][NextSteps]_vars

\* keys that differ from each other in every coordinate
DiagKeys ==
  {FormatInt(a) \o <<",">> \o FormatInt(a) \o <<",">> \o FormatInt(a) : a \in XVals}

\* rooms cloned to keys that the key setter accepts
NextClone ==
  \/ New(1)
  \/ \E o \in Objs, key \in DiagKeys : SetKey(o, key)
  \/ \E o \in Objs, key \in DiagKeys : Clone(o, key, MaxFresh)
  \/ \E key \in DiagKeys : Load(key, TRUE, "None")
  \/ \E o \in Objs : Save(o)
  \/ \E o \in Objs : Drop(o)

SpecClone == InitRoom /\ [][NextClone]_vars

\* the operations around find, on every order of the store's keys
NextFind ==
  \/ New(MaxFresh)
  \/ \E o \in Objs, v \in WrittenVals(XVals) : SetAttr(o, WrittenName, v)
  \/ \E o \in Objs, key \in AllKeys(XVals) : SetKey(o, key)
  \/ \E o \in Objs : Save(o)
  \/ \E o \in Objs : Drop(o)
  \/ \E pairs \in FindPairs, uc \in BOOLEAN, m \in {"all", "any"},
        keys \in KeyOrders(store) :
       Find(pairs, uc, TRUE, m, 0, keys)

SpecFind == Init /\ [][NextFind]_vars

\* the operations around find with a limit
NextFindN ==
  \/ New(MaxFresh)
  \/ \E o \in Objs, v \in WrittenVals(XVals) : SetAttr(o, WrittenName, v)
  \/ \E o \in Objs, key \in AllKeys(XVals) : SetKey(o, key)
  \/ \E o \in Objs : Save(o)
  \/ \E o \in Objs : Drop(o)
  \/ \E pairs \in FindPairs, uc \in BOOLEAN, m \in {"all", "any"},
        n \in 1..MaxN, keys \in KeyOrders(store) :
       Find(pairs, uc, TRUE, m, n, keys)

SpecFindN == Init /\ [][NextFindN]_vars

\* the operations on an entity and its record: flags, revert, clone, delete
NextOps ==
  \/ New(MaxFresh)
  \/ \E o \in Objs, v \in WrittenVals(XVals) : SetAttr(o, WrittenName, v)
  \/ \E o \in Objs, key \in AllKeys(XVals) : SetKey(o, key)
  \/ \E key \in AllKeys(XVals) : Load(key, TRUE, "None")
  \/ \E o \in Objs : Save(o)
  \/ \E o \in Objs : Drop(o)
  \/ \E o \in Objs : AddFlag(o, "flag")
  \/ \E o \in Objs : Revert(o)
  \/ \E o \in Objs, key \in AllKeys(XVals) : Clone(o, key, MaxFresh)
  \/ \E o \in Objs : Delete(o)

SpecOps == Init /\ [][NextOps]_vars

\* the batch sweep over savable and unsavable entities
NextSweep ==
  \/ New(MaxFresh)
  \/ NewUnsavable(MaxFresh)
  \/ \E o \in Objs, v \in WrittenVals(XVals) : SetAttr(o, WrittenName, v)
  \/ \E o \in Objs, key \in AllKeys(XVals) : SetKey(o, key)
  \/ \E o \in Objs : Save(o)
  \/ \E o \in Objs : Drop(o)
  \/ \E key \in AllKeys(XVals) : Load(key, TRUE, "None")
  \/ Sweep

SpecSweep == Init /\ [][NextSweep]_vars

\* the clock read by make_uid moves to another reading
Tick(t) ==
  /\ t # time
  /\ time' = t
  /\ last' = [op |-> "tick"]
  /\ UNCHANGED <<kind, uid_timecode, ents, instances, cache, cache_size,
                 store, issued, registered, schema, slots, writers>>

\* uid = Cls.make_uid(), while fewer than maxUids have been requested
MakeUid(maxUids) ==
  /\ Len(issued) < maxUids
  /\ uid_timecode' = make_uid_timecode(uid_timecode)
  /\ issued' = Append(issued, make_uid(uid_timecode))
  /\ last' = [op |-> "uid", uid |-> make_uid(uid_timecode),
              big_time |-> time * uid_timecode_multiplier,
              before |-> uid_timecode]
  /\ UNCHANGED <<kind, time, ents, instances, cache, cache_size, store,
                 registered, schema, slots, writers>>

\* requests for identifiers under a clock that may read anything
NextUid ==
  \/ \E t \in 0..MaxTime : Tick(t)
  \/ MakeUid(MaxUids)

SpecUid == Init /\ [][NextUid]_vars

\* the candidates of a write: the values of the range and, for a coordinate,
\* a string
Candidates(xs) ==
  {Box(v) : v \in WrittenVals(xs)}
    \cup (IF kind = "Room" THEN {Str123} ELSE {})

\* single writes to every field, with candidates the validators reject
NextWrite ==
  \/ New(MaxFresh)
  \/ \E o \in Objs, value \in Candidates(XVals) :
       Write(o, WrittenName, value)
  \/ \E o \in Objs, key \in AllKeys(XVals) : SetKey(o, key)
  \/ \E key \in AllKeys(XVals) : Load(key, TRUE, "None")
  \/ \E o \in Objs : Save(o)
  \/ \E o \in Objs : Drop(o)

\* on a cache of one entry, so that the validators' look-ups evict
SpecWrite == InitEvict /\ [][NextWrite]_vars

\* every operation on entities together: one entity is constructed by the
\* caller, the others come from clone, load and find; the sweep runs when
\* the registered instances have their keys; tags are set by the caller on
\* the type keyed by its identifier
NextAll ==
  \/ New(1)
  \/ \E o \in Objs, v \in WrittenVals(XVals) : SetAttr(o, WrittenName, v)
  \/ \E o \in Objs, key \in AllKeys(XVals) : SetKey(o, key)
  \/ \E key \in AllKeys(XVals) : Load(key, TRUE, "None")
  \/ \E o \in Objs : Save(o)
  \/ \E o \in Objs : Drop(o)
  \/ \E o \in Objs : AddFlag(o, "flag")
  \/ get_key_name = "uid" /\ \E o \in Objs : AddTag(o, "tag", Box(1))
  \/ \E o \in Objs : Revert(o)
  \/ \E o \in Objs, key \in AllKeys(XVals) : Clone(o, key, MaxFresh)
  \/ \E o \in Objs : Delete(o)
  \/ \E keys \in KeyOrders(store) : Find(<<CritA>>, TRUE, TRUE, "all", 0, keys)
  \/ (\A i \in DOMAIN instances : Key(ents[instances[i].obj]) # Unset) /\ Sweep

SpecAll == Init /\ [][NextAll]_vars

\* ENTITIES.register(t)
Register(t) ==
  /\ registered' = ManagerRegister(registered, t).reg
  /\ last' = [op |-> "register", type |-> t,
              err |-> ManagerRegister(registered, t).err]
  /\ UNCHANGED <<kind, time, uid_timecode, ents, instances, cache, cache_size,
                 store, issued, schema, slots, writers>>

NextReg == \E t \in TypeDefs : Register(t)

SpecReg == Init /\ [][NextReg]_vars

\* @Cls.register_attr(name) and @Cls.register_blob(name) on a class
RegisterField(c, name, what) ==
  /\ schema' = RegisterName(schema, c, name, what).sch
  /\ last' = [op |-> "field", cls |-> c, name |-> name, what |-> what,
              ok |-> RegisterName(schema, c, name, what).ok]
  /\ UNCHANGED <<kind, time, uid_timecode, ents, instances, cache, cache_size,
                 store, issued, registered, slots, writers>>

\* Cls(): the value tree of the new instance; attrs and blobs map each
\* name to the class whose attribute or sub-blob class the tree holds. The
\* updates of _attrs stay in the dict of the class
Build(c) ==
  LET tree == BuildBaseBlob(schema, c, BuildOrder(c, <<>>), 1,
                            BlobOf(schema, c, c, [attrs |-> schema[c].dict]))
  IN /\ schema' = [schema EXCEPT ![c].dict = tree.attrs]
     /\ last' = [op |-> "build", cls |-> c, order |-> BuildOrder(c, <<>>),
                 attrs |-> tree.attrs, blobs |-> tree.blobs]
     /\ UNCHANGED <<kind, time, uid_timecode, ents, instances, cache,
                    cache_size, store, issued, registered, slots, writers>>

NextSchema ==
  \E c \in Classes, name \in {"a", "version"}, what \in {"attrs", "blobs"} :
    RegisterField(c, name, what)

SpecSchema == Init /\ [][NextSchema]_vars

\* registrations of a field or sub-blob "a" and of a sub-blob "b", and
\* constructions
NextBuild ==
  \/ \E c \in Classes, what \in {"attrs", "blobs"} : RegisterField(c, "a", what)
  \/ \E c \in Classes : RegisterField(c, "b", "blobs")
  \/ \E c \in Classes : Build(c)

SpecBuild == Init /\ [][NextBuild]_vars


(* ------------------ value trees: fields and sub-blobs ----------------- *)
\* A blob is [vals |-> field -> value, blobs |-> name -> blob, ok |-> no
\* write on it has raised]; a dict of serialized data is
\* [s |-> key -> scalar, n |-> key -> dict].  The blobs here carry no field
\* of their entity's key.
TreeVals == {Unset, Box(1), Str123}

\* Attribute.default of the fields of the tree
AttrDefault(name) == IF name = "q" THEN Box(1) ELSE Unset

\* CoordAttribute._validate without bounds: integers only
TreeValidate(value) == IsInt(value)

\* Attribute._serialize and Attribute._deserialize
AttrHook(value) == value

\* DataBlob.__init__: every field at its default, every sub-blob new
RECURSIVE DataBlobInit(_)
DataBlobInit(b) ==
  [vals |-> [k \in DOMAIN b.vals |-> AttrDefault(k)],
   blobs |-> [k \in DOMAIN b.blobs |-> DataBlobInit(b.blobs[k])],
   ok |-> TRUE]

\* DataBlob.serialize
RECURSIVE DataBlobSerialize(_)
DataBlobSerialize(b) ==
  [s |-> [k \in DOMAIN b.vals |->
            IF b.vals[k] # Unset THEN AttrHook(b.vals[k]) ELSE b.vals[k]],
   n |-> [k \in DOMAIN b.blobs |-> DataBlobSerialize(b.blobs[k])]]

\* the values DataBlob.serialize hands to the _serialize hooks
RECURSIVE SerializeHooked(_)
SerializeHooked(b) ==
  {b.vals[k] : k \in {j \in DOMAIN b.vals : b.vals[j] # Unset}}
    \cup UNION {SerializeHooked(b.blobs[k]) : k \in DOMAIN b.blobs}

\* the values DataBlob.deserialize hands to the _deserialize hooks
RECURSIVE DeserializeHooked(_, _)
DeserializeHooked(b, data) ==
  {data.s[k] : k \in {j \in DOMAIN data.s \cap DOMAIN b.vals : data.s[j] # Unset}}
    \cup UNION {DeserializeHooked(b.blobs[k], data.n[k]) :
                  k \in DOMAIN data.n \cap DOMAIN b.blobs}

\* DataBlob._set_attr_val on a tree field: whether the write raises
SetValRaises(value, validate) ==
  value # Unset /\ validate /\ ~TreeValidate(value)

\* DataBlob._set_attr_val on a tree field: the value the field has afterwards
SetVal(old, value, validate) ==
  IF SetValRaises(value, validate) THEN old ELSE value

\* DeserializeVals that keeps the default of a field whose entry is unset
DeserializeValsSkipUnset(vals, s) ==
  [vals |-> [k \in DOMAIN vals |->
               IF k \in DOMAIN s /\ s[k] # Unset
                 THEN SetVal(vals[k], AttrHook(s[k]), FALSE)
                 ELSE vals[k]],
   ok |-> TRUE]

\* DeserializeVals that validates what it commits
DeserializeValsValidated(vals, s) ==
  [vals |-> [k \in DOMAIN vals |->
               IF k \in DOMAIN s
                 THEN SetVal(vals[k],
                             IF s[k] # Unset THEN AttrHook(s[k]) ELSE s[k], TRUE)
                 ELSE vals[k]],
   ok |-> \A k \in DOMAIN vals \cap DOMAIN s : ~SetValRaises(s[k], TRUE)]

\* DataBlob.deserialize, the entries that are fields:
\* _set_attr_val(key, value, validate=False, raw=True)
DeserializeVals(vals, s) ==
  [vals |-> [k \in DOMAIN vals |->
               IF k \in DOMAIN s
                 THEN SetVal(vals[k],
                             IF s[k] # Unset THEN AttrHook(s[k]) ELSE s[k], FALSE)
                 ELSE vals[k]],
   ok |-> \A k \in DOMAIN vals \cap DOMAIN s : ~SetValRaises(s[k], FALSE)]

\* DataBlob.deserialize: fields are committed, sub-blobs deserialized in
\* turn, other entries logged and left out
RECURSIVE DataBlobDeserialize(_, _)
DeserializeBlobs(b, data) ==
  [k \in DOMAIN b.blobs |->
     IF k \in DOMAIN data.n THEN DataBlobDeserialize(b.blobs[k], data.n[k])
     ELSE b.blobs[k]]

DeserializeJoin(b, done, subs) ==
  [vals |-> done.vals, blobs |-> subs,
   ok |-> b.ok /\ done.ok /\ \A k \in DOMAIN subs : subs[k].ok]

DataBlobDeserialize(b, data) ==
  DeserializeJoin(b, DeserializeVals(b.vals, data.s), DeserializeBlobs(b, data))

\* the trees and the dicts the operations are tried on
LeafBlobs == {[vals |-> f, blobs |-> <<>>, ok |-> TRUE] : f \in [{"r"} -> TreeVals]}

TreeBlobs ==
  {[vals |-> f, blobs |-> [sub |-> l], ok |-> TRUE] :
     f \in [{"p", "q"} -> TreeVals], l \in LeafBlobs}

DictsOver(keys, subs) ==
  {[s |-> f, n |-> g] :
     f \in UNION {[D -> TreeVals] : D \in SUBSET keys},
     g \in {<<>>} \cup {[sub |-> d] : d \in subs}}

TreeDicts == DictsOver({"p", "q", "junk"}, DictsOver({"r", "junk"}, {}))

\* data = blob.serialize(); copy = type(blob)(entity); copy.deserialize(data)
RoundTrip(b) ==
  /\ last' = [op |-> "roundtrip", blob |-> b, data |-> DataBlobSerialize(b),
              copy |-> DataBlobDeserialize(DataBlobInit(b), DataBlobSerialize(b)),
              hooked |-> SerializeHooked(b)
                           \cup DeserializeHooked(DataBlobInit(b),
                                                  DataBlobSerialize(b))]
  /\ UNCHANGED <<kind, time, uid_timecode, ents, instances, cache,
                 cache_size, store, issued, registered, schema, slots, writers>>

\* blob.deserialize(data)
BlobLoad(b, data) ==
  /\ last' = [op |-> "deserialize", blob |-> b, data |-> data,
              after |-> DataBlobDeserialize(b, data)]
  /\ UNCHANGED <<kind, time, uid_timecode, ents, instances, cache,
                 cache_size, store, issued, registered, schema, slots, writers>>

(* --------------------- the hooks of a field write -------------------- *)
\* RoomName._validate: a string is returned in title case, anything else
\* raises; strings are tuples of characters
NameValidate(value) ==
  IF IsInt(value) THEN [ok |-> FALSE, value |-> value]
  ELSE [ok |-> TRUE,
        value |-> <<IF Head(value) = "a" THEN "A" ELSE Head(value)>> \o Tail(value)]

NameVals == {Unset, <<"a", "b">>, <<"A", "b">>, Box(1)}

\* TraceCommit calling _changed before the value is stored
TraceCommitChangedFirst(old, value) ==
  <<[hook |-> "changed", arg |-> <<old, value>>],
    [hook |-> "commit", arg |-> value],
    [hook |-> "relocate", arg |-> value],
    [hook |-> "dirty", arg |-> value]>>

\* DataBlob._set_attr_val from the assignment on: the value is stored, the
\* cache entry moved if the key changed, dirty() called, then _changed
TraceCommit(old, value) ==
  <<[hook |-> "commit", arg |-> value],
    [hook |-> "relocate", arg |-> value],
    [hook |-> "dirty", arg |-> value],
    [hook |-> "changed", arg |-> <<old, value>>]>>

\* DataBlob._set_attr_val(name, value, validate, raw) on a name field: the
\* hooks called and the steps taken, in order (_finalize returns its
\* argument); neither hook is called for Unset, and nothing follows a
\* _validate that raises
SetAttrTrace(old, value, validate, raw) ==
  LET v == IF value # Unset /\ validate THEN NameValidate(value)
           ELSE [ok |-> TRUE, value |-> value]
  IN (IF value # Unset /\ validate
        THEN <<[hook |-> "validate", arg |-> value]>> ELSE <<>>)
     \o (IF ~v.ok THEN <<[hook |-> "raise", arg |-> value]>>
         ELSE (IF value # Unset /\ ~raw
                 THEN <<[hook |-> "finalize", arg |-> v.value]>> ELSE <<>>)
              \o TraceCommit(old, v.value))

\* entity.name = value (via = "setter": validate=True, raw=False) or an
\* entry of deserialized data (via = "deserialize": validate=False, raw=True)
FieldWrite(old, value, via) ==
  /\ last' = [op |-> "hooks", old |-> old, value |-> value, via |-> via,
              trace |-> SetAttrTrace(old, value, via = "setter",
                                     via = "deserialize")]
  /\ UNCHANGED <<kind, time, uid_timecode, ents, instances, cache,
                 cache_size, store, issued, registered, schema, slots, writers>>

\* the operations are functions of their inputs: each is tried once on
\* every input
NextBlob ==
  \/ last.op = "init" /\ \E b \in TreeBlobs : RoundTrip(b)
  \/ last.op = "init" /\ \E b \in TreeBlobs, data \in TreeDicts : BlobLoad(b, data)
  \/ last.op = "init" /\ \E old, value \in NameVals \ {Box(1)}, via \in {"setter", "deserialize"} :
       FieldWrite(old, value, via)
  \/ last.op = "init" /\ \E old \in NameVals \ {Box(1)}, via \in {"setter", "deserialize"} :
       FieldWrite(old, Box(1), via)

SpecBlob == Init /\ [][NextBlob]_vars

(* ------------------------------ properties ---------------------------- *)
Alive(o) == o \in DOMAIN ents
CacheMaps(key, o) == CacheHas(cache, key) /\ CachePeek(cache, key) = o

\* the instances load(key) can find in memory: the registry entry under the
\* identifier, the cache entry under the key, the registered instances
\* whose key it is
Registered(key) ==
  (IF get_key_name = "uid" /\ InstHas(instances, key)
     THEN {InstGet(instances, key)} ELSE {})
  \cup (IF CacheHas(cache, key) THEN {CachePeek(cache, key)} ELSE {})
  \cup (IF get_key_name # "uid"
          THEN {o \in InstObjs(instances) : Key(ents[o]) = key} ELSE {})

AttrSet == {AttrNames[i] : i \in 1..Len(AttrNames)}

\* the step leaves the entity's fields, identifier, tags and flags as they were
SameEntity(o) ==
  /\ o \in DOMAIN ents /\ o \in DOMAIN ents'
  /\ [ents'[o] EXCEPT !.held = TRUE] = [ents[o] EXCEPT !.held = TRUE]

\* C1: after a committed field write that changes an entity's key from A to
\* B (a setter write, or the writes that materialize a room from a record),
\* the key cache has no entry A -> entity and has the entry B -> entity when
\* the write's operation ends.
C1_KeyWriteMovesCacheEntry ==
  /\ (last.op = "set" /\ Alive(last.obj) /\ Key(ents[last.obj]) # last.old_key)
       => /\ ~CacheMaps(last.old_key, last.obj)
          /\ CacheMaps(Key(ents[last.obj]), last.obj)
  /\ (last.op = "load" /\ last.src = "store" /\ kind = "Room")
       => /\ ~CacheMaps(Unset, last.obj)
          /\ CacheMaps(Key(ents[last.obj]), last.obj)

C1_Witness ==
  /\ last.op = "set" /\ Alive(last.obj)
  /\ last.old_key # Unset
  /\ Key(ents[last.obj]) # last.old_key
  /\ Len(cache) = 2

\* C2 (as claimed): once an entity's key has changed from A to B, load(A),
\* looking in memory first, returns neither that entity nor another instance
\* with its identifier.
C2_LoadOldKeyMisses ==
  \A o \in DOMAIN ents :
    (/\ last.op = "load" /\ last.from_cache /\ last.obj # NoObj
     /\ HasOldKey(ents[o]) /\ ents[o].tags["_old_key"] = last.key
     /\ Key(ents[o]) # last.key)
      => /\ last.obj # o
         /\ ents[last.obj].uid # ents[o].uid

\* C3 (as claimed): after save() the store holds the saved entity's record
\* under its current key only.
C3_SaveLeavesOneRecord ==
  (last.op = "save" /\ Alive(last.obj))
    => \A k \in DOMAIN store :
         store[k].uid = ents[last.obj].uid => k = Key(ents[last.obj])

\* C4: after save() on a savable entity the record under its key equals its
\* serialization, the _old_key tag is absent and the entity is not dirty.
C4_SavePostcondition ==
  (last.op = "save" /\ Alive(last.obj) /\ is_savable(ents[last.obj]))
    => /\ store_has(store, Key(ents[last.obj]))
       /\ store[Key(ents[last.obj])] = Serialize(ents[last.obj])
       /\ ~HasOldKey(ents[last.obj])
       /\ ~ents[last.obj].dirty

C4_Witness ==
  /\ last.op = "save" /\ Alive(last.obj)
  /\ kind = "Room"
  /\ Cardinality(DOMAIN store) = 2

\* C5: load(key, from_cache=True), when an instance is registered under the
\* identifier or key, returns such an instance (one whose key is key)
\* without going to the store, and leaves the store, the instance's fields
\* and its dirty flag as they were.
C5_LoadReturnsRegistered ==
  [][(last'.op = "load" /\ last'.from_cache /\ Registered(last'.key) # {})
       => /\ last'.obj \in Registered(last'.key)
          /\ Key(ents[last'.obj]) = last'.key
          /\ last'.src \in {"uid", "cache", "scan"}
          /\ store' = store
          /\ SameEntity(last'.obj)]_vars

C5_Witness ==
  /\ last.op = "load" /\ last.from_cache
  /\ last.src \in {"uid", "cache", "scan"}
  /\ ents[last.obj].dirty
  /\ store_has(store, last.key)
  /\ store[last.key] # Serialize(ents[last.obj])

\* C6: load(key, from_cache=False) takes its result from the store record
\* under key whatever is registered in memory: with a record, a new entity
\* with the record's identifier and field values, not dirty; without one,
\* nothing, and it raises exactly when the default is an exception type.
C6_LoadUncachedReadsStore ==
  [][(last'.op = "load" /\ ~last'.from_cache)
       => IF store_has(store, last'.key)
            THEN /\ last'.src = "store"
                 /\ last'.obj \notin DOMAIN ents
                 /\ last'.obj \in DOMAIN ents'
                 /\ ents'[last'.obj].uid = store[last'.key].uid
                 /\ \A a \in AttrSet : ents'[last'.obj][a] = store[last'.key][a]
                 /\ ~ents'[last'.obj].dirty
            ELSE /\ last'.obj = NoObj
                 /\ last'.raised = (last'.default = "KeyError")]_vars

C6_Witness ==
  /\ last.op = "load" /\ ~last.from_cache /\ last.src = "store"
  /\ \E p \in DOMAIN ents \ {last.obj} :
       /\ Key(ents[p]) = last.key
       /\ p \in InstObjs(instances) \cup CacheObjs(cache)

\* C7: a load that finds nothing in memory (when from_cache allows looking)
\* and no record in the store returns no entity, raises exactly when the
\* default is an exception type, and leaves the entities, the registry, the
\* cache and the store as they were.
C7_LoadMissChangesNothing ==
  [][(/\ last'.op = "load"
      /\ ~store_has(store, last'.key)
      /\ (last'.from_cache => Registered(last'.key) = {}))
       => /\ last'.obj = NoObj
          /\ last'.raised = (last'.default = "KeyError")
          /\ ents' = ents
          /\ instances' = instances
          /\ cache' = cache
          /\ store' = store]_vars

C7_Witness ==
  /\ last.op = "load" /\ last.obj = NoObj /\ last.raised
  /\ last.from_cache
  /\ cache # <<>>
  /\ store # <<>>

ResultUids(r) == {r.w.ents[o].uid : o \in r.found}

\* the searches for the single pairs, on one order of the store's keys
SingleFinds(pairs, use_cache, keys) ==
  {EntityFind(World, <<pairs[j]>>, use_cache, TRUE, "any", 0, keys)
     : j \in 1..Len(pairs)}

\* uids are the identifiers the searches rs return together (searches that
\* need more objects than the model has are left out of the comparison)
UnionOf(rs, uids) ==
  (\A r \in rs : ~r.w.ovf) => uids = UNION {ResultUids(r) : r \in rs}

\* C9: with n = 0, find under match=all returns only entities for which
\* every pair holds; under match=any it returns only entities for which some
\* pair holds, every registered instance and every record not shadowed by one
\* for which some pair holds, and the same identifiers as the searches for
\* the single pairs together.
C9_FindAllAny ==
  [][(last'.op = "find" /\ last'.n = 0)
       => /\ last'.match = "all"
               => \A o \in last'.found : EntityMatches(ents'[o], last'.pairs, "all")
          /\ last'.match = "any"
               => /\ \A o \in last'.found :
                       EntityMatches(ents'[o], last'.pairs, "any")
                  /\ last'.use_cache
                       => \A o \in InstObjs(instances) :
                            EntityMatches(ents[o], last'.pairs, "any")
                              => o \in last'.found
                  /\ \A k \in DOMAIN store :
                       (/\ DataMatches(store[k], last'.pairs, "any")
                        /\ ~(last'.use_cache
                              /\ \E o \in InstObjs(instances) : Key(ents[o]) = k))
                         => \E o \in last'.found : ents'[o].uid = store[k].uid
                  /\ \A keys \in KeyOrders(store) :
                       UnionOf(SingleFinds(last'.pairs, last'.use_cache, keys),
                               {ents'[o].uid : o \in last'.found})]_vars

C9_Witness ==
  /\ last.op = "find" /\ last.match = "any" /\ Len(last.pairs) = 2
  /\ Cardinality(last.found) = 2
  /\ \E o \in last.found : ~EntityMatches(ents[o], last.pairs, "all")
  /\ \E o \in last.found : ~ents[o].dirty

\* every live entity is in the registry, under an identifier of its own
AllRegistered ==
  /\ InstObjs(instances) = DOMAIN ents
  /\ \A o, p \in DOMAIN ents : ents[o].uid = ents[p].uid => o = p

\* C10 (as claimed): where every live entity is registered under its own
\* identifier, a find that scans the instances in memory returns no two
\* entities with one identifier and materializes no entity whose identifier
\* a live entity has.
C10_FindReturnsNoDuplicate ==
  [][(last'.op = "find" /\ last'.use_cache /\ AllRegistered)
       => \A o \in last'.found, p \in DOMAIN ents' :
            ents'[o].uid = ents'[p].uid => o = p]_vars

\* the step leaves every entity, the registry, the cache and the store as
\* they were (but for the references callers hold)
NothingMaterialized ==
  /\ DOMAIN ents' = DOMAIN ents
  /\ \A o \in DOMAIN ents : SameEntity(o)
  /\ instances' = instances
  /\ cache' = cache
  /\ store' = store

\* the registered instances the criteria hold for
MemoryMatches(pairs, match) ==
  {o \in InstObjs(instances) : EntityMatches(ents[o], pairs, match)}

WorldUnchanged ==
  /\ ents' = ents
  /\ instances' = instances
  /\ cache' = cache
  /\ store' = store

\* C12: revert() on an entity whose key leads to a record with another
\* identifier fails with ValueError and leaves the entity (fields, flags,
\* tags, identifier, dirty flag), the cache, the registry and the store as
\* they were.
C12_RevertMismatchFails ==
  [][(/\ last'.op = "revert"
      /\ store_has(store, Key(ents[last'.obj]))
      /\ store[Key(ents[last'.obj])].uid # ents[last'.obj].uid)
       => /\ ~last'.ok
          /\ last'.err = "ValueError"
          /\ WorldUnchanged]_vars

C12_Witness ==
  /\ last.op = "revert" /\ last.err = "ValueError"
  /\ ents[last.obj].dirty
  /\ store_has(store, Key(ents[last.obj]))
  /\ store[Key(ents[last.obj])].uid # ents[last.obj].uid

\* C13 (as claimed): after a revert() that succeeds, the entity's
\* serialization equals the record under its key and the entity is not dirty.
C13_RevertRestoresRecord ==
  (last.op = "revert" /\ last.ok)
    => /\ store_has(store, Key(ents[last.obj]))
       /\ Serialize(ents[last.obj]) = store[Key(ents[last.obj])]
       /\ ~ents[last.obj].dirty

\* C14 (as claimed): clone(B) on an entity with a key, with no record under
\* B in the store, returns a new entity with key B, an identifier of its own
\* and the original's values in the fields that are not the key.
C14_CloneReturnsCopy ==
  (last.op = "clone" /\ ~last.had /\ Key(ents[last.obj]) # Unset)
    => /\ last.ok
       /\ last.made \in DOMAIN ents
       /\ Key(ents[last.made]) = last.new_key
       /\ ents[last.made].uid # ents[last.obj].uid
       /\ ents[last.made].version = ents[last.obj].version

\* C15: clone(new_key) with a record under new_key in the store fails with
\* KeyError: no entity is constructed, no identifier generated, and the
\* entities, the registry, the cache and the store stay as they were.
C15_CloneExistingKeyFails ==
  [][(last'.op = "clone" /\ store_has(store, last'.new_key))
       => /\ ~last'.ok
          /\ last'.err = "KeyError"
          /\ last'.made = NoObj
          /\ uid_timecode' = uid_timecode
          /\ WorldUnchanged]_vars

C15_Witness ==
  /\ last.op = "clone" /\ last.had /\ last.err = "KeyError"
  /\ ents[last.obj].dirty
  /\ Key(ents[last.obj]) # last.new_key

\* C16: delete() takes the record under the entity's current key out of the
\* store and changes nothing else: the other records, the entity's fields,
\* identifier and dirty flag, the registry and the cache stay as they were,
\* and the entity stays alive.
C16_DeleteRemovesRecordOnly ==
  [][last'.op = "delete"
       => /\ DOMAIN store' = DOMAIN store \ {Key(ents[last'.obj])}
          /\ \A k \in DOMAIN store' : store'[k] = store[k]
          /\ ents' = ents
          /\ instances' = instances
          /\ cache' = cache
          /\ last'.obj \in DOMAIN ents']_vars

C16_Witness ==
  /\ last.op = "delete"
  /\ Cardinality(DOMAIN store) = 1
  /\ CacheMaps(Key(ents[last.obj]), last.obj)
  /\ last.obj \in InstObjs(instances)

\* the instances the sweep visits and saves: those in the registry of the
\* class that are savable and dirty
SweepDue ==
  {o \in InstObjs(instances) : is_savable(ents[o]) /\ ents[o].dirty}

\* C17: the batch sweep saves exactly the registered instances that are dirty
\* and savable: none of them is dirty afterwards, an instance that was clean
\* or not savable is left as it was, every record written or removed is the
\* record of an instance that was due, and the count is the number of
\* instances that were due; for a class that is not registered nothing is
\* saved
C17_SweepSavesDirtySavable ==
  [][last'.op = "sweep"
       => /\ instances' = instances /\ cache' = cache
          /\ IsRegistered
               => /\ \A o \in SweepDue : ~ents'[o].dirty
                  /\ \A o \in InstObjs(instances) \ SweepDue :
                        ents'[o] = ents[o]
                  /\ \A k \in DOMAIN store' :
                        (k \notin DOMAIN store \/ store'[k] # store[k])
                          => \E o \in SweepDue :
                               /\ Key(ents[o]) = k
                               /\ store'[k] = Serialize(ents'[o])
                  /\ \A k \in DOMAIN store \ DOMAIN store' :
                        \E o \in SweepDue :
                          /\ HasOldKey(ents[o])
                          /\ ents[o].tags["_old_key"] = k
                  /\ last'.count = Cardinality(SweepDue)
          /\ ~IsRegistered
               => last'.count = 0 /\ ents' = ents /\ store' = store]_vars

C17_Witness ==
  /\ last.op = "sweep"
  /\ last.count = 1
  /\ \E o \in InstObjs(instances) : ~is_savable(ents[o]) /\ ents[o].dirty
  /\ \E o \in InstObjs(instances) :
        /\ is_savable(ents[o]) /\ ~ents[o].dirty
        /\ store_has(store, Key(ents[o]))
        /\ store[Key(ents[o])] = Serialize(ents[o])

\* the number a timecode string stands for in the character set
CharIndex(c, charset) == CHOOSE i \in 1..Len(charset) : charset[i] = c

RECURSIVE base_n_to_int(_, _)
base_n_to_int(str, charset) ==
  IF Len(str) = 0 THEN 0
  ELSE base_n_to_int(SubSeq(str, 1, Len(str) - 1), charset) * Len(charset)
         + CharIndex(str[Len(str)], charset) - 1

\* the timecode of an identifier "<code>-<timecode>"
TimecodeOf(uid) == base_n_to_int(SubSeq(uid, 3, Len(uid)), uid_timecode_charset)

\* C18: every request for an identifier leaves the timecode counter strictly
\* greater than it was, whatever the clock reads and however many requests
\* fall within one reading, and the identifier returned was returned by no
\* earlier request
C18_UidCounterIncreases ==
  [][last'.op = "uid"
       => /\ uid_timecode' > uid_timecode
          /\ \A i \in DOMAIN issued : issued[i] # last'.uid
          /\ issued' = Append(issued, last'.uid)]_vars

C18_Witness ==
  /\ last.op = "uid"
  /\ Len(issued) = MaxUids
  /\ uid_timecode > last.big_time + 1
  /\ \E i \in DOMAIN issued : TimecodeOf(issued[i]) > last.big_time + 1

\* C19: a request sets the counter to the candidate clock * multiplier when
\* the candidate exceeds the counter and to counter + 1 otherwise, so the
\* timecode of the identifier is never smaller than the candidate, and the
\* identifier is the type code, a dash and the timecode in the character set
C19_UidTimecodeRule ==
  [][last'.op = "uid"
       => /\ last'.big_time = time * uid_timecode_multiplier
          /\ uid_timecode' = IF last'.big_time > uid_timecode
                               THEN last'.big_time
                               ELSE uid_timecode + 1
          /\ Len(last'.uid) > 2
          /\ last'.uid[1] = uid_code /\ last'.uid[2] = "-"
          /\ SubSeq(last'.uid, 3, Len(last'.uid))
                = int_to_base_n(uid_timecode', uid_timecode_charset)
          /\ TimecodeOf(last'.uid) = uid_timecode'
          /\ TimecodeOf(last'.uid) >= last'.big_time]_vars

C19_Witness ==
  /\ last.op = "uid"
  /\ last.before > 0
  /\ last.big_time > last.before
  /\ uid_timecode = last.big_time
  /\ Len(issued) > 1

\* the keys under which a cache holds the entity
CachedUnder(c, o) ==
  {k \in AllKeys(XVals) \cup {Unset} : CacheHas(c, k) /\ CachePeek(c, k) = o}

\* C20 as stated: when a validator rejects the candidate of a write, the
\* field keeps its value, the dirty flag and the old-key tag are unchanged,
\* and the cache holds the entity under the same keys as before
C20_RejectedWriteKeepsCacheEntry ==
  [][(last'.op = "write" /\ ~last'.ok)
       => /\ ents'[last'.obj] = ents[last'.obj]
          /\ CachedUnder(cache', last'.obj) = CachedUnder(cache, last'.obj)]_vars

\* C20, amended: when a validator rejects the candidate of a write, the
\* field keeps its value, the dirty flag and the old-key tag are unchanged,
\* and the entity's cache entry is not moved: afterwards the cache holds the
\* entity under no key but one it held it under before or its unchanged
\* current key (the validator's look-up may evict the entry or insert it)
C20_RejectedWriteCommitsNothing ==
  [][(last'.op = "write" /\ ~last'.ok)
       => /\ ents'[last'.obj] = ents[last'.obj]
          /\ CachedUnder(cache', last'.obj)
                \subseteq CachedUnder(cache, last'.obj)
                            \cup {Key(ents[last'.obj])}]_vars

C20_Witness ==
  /\ last.op = "write"
  /\ ~last.ok
  /\ IsInt(last.value)
  /\ ents[last.obj][last.name] # last.value
  /\ ents[last.obj].dirty
  /\ HasOldKey(ents[last.obj])
  /\ CachedUnder(cache, last.obj) = {}

\* C21: every committed write of a field, by a setter or by deserialization
\* and whether or not the value differs, and every change of a flag or a
\* tag leaves the entity dirty; an entity stops being dirty only in save (by
\* itself or in the sweep) and revert, and a new entity is clean only when
\* it was constructed without data or materialized from a record of the
\* store (by load, also when a validator calls it, or by find)
C21_WritesMarkDirty ==
  [][/\ (last'.op = "set" /\ last'.ok) => ents'[last'.obj].dirty
     /\ last'.op \in {"flag", "tag"} => ents'[last'.obj].dirty
     /\ (last'.op = "clone" /\ last'.made \in DOMAIN ents')
          => ents'[last'.made].dirty
     /\ \A o \in DOMAIN ents \cap DOMAIN ents' :
          (ents[o].dirty /\ ~ents'[o].dirty)
            => \/ last'.op \in {"save", "revert"} /\ last'.obj = o
               \/ last'.op = "sweep"
     /\ \A o \in DOMAIN ents' \ DOMAIN ents :
          ~ents'[o].dirty
            => \/ last'.op = "new"
               \/ \E k \in DOMAIN store : store[k].uid = ents'[o].uid]_vars

\* a write of the value the entity and its record already had
C21_Witness ==
  /\ last.op = "set" /\ last.ok
  /\ ents[last.obj].dirty
  /\ store_has(store, Key(ents[last.obj]))
  /\ store[Key(ents[last.obj])] = Serialize(ents[last.obj])

\* C22: registering a class whose name is registered fails with the
\* duplicate-name error, one whose code is the code of a registered class
\* with the uniqueness error; a failed registration leaves the registry as it
\* was, and no two registered classes share a name or a code
C22_RegisterRejectsDuplicates ==
  [][last'.op = "register"
       => /\ (last'.type.entity /\ last'.type.name \in DOMAIN registered)
               => last'.err = "AlreadyExists"
          /\ (/\ last'.type.entity
              /\ last'.type.name \notin DOMAIN registered
              /\ \E n \in DOMAIN registered :
                    registered[n].code = last'.type.code)
               => last'.err = "KeyError"
          /\ last'.err # "none" => registered' = registered
          /\ \A n \in DOMAIN registered' : registered'[n].name = n
          /\ \A n, m \in DOMAIN registered' :
                n # m => registered'[n].code # registered'[m].code]_vars

C22_Witness ==
  /\ last.op = "register"
  /\ last.err = "KeyError"
  /\ Cardinality(DOMAIN registered) = 2

\* C23: registering a field or a sub-blob under a name the class already
\* has, its own or inherited, fails and leaves the schema as it was, and in
\* the merged schema of every class no name is both a field and a sub-blob
C23_FieldNamesUnique ==
  [][last'.op = "field"
       => /\ HasAttr(schema, last'.cls, last'.name)
               => ~last'.ok /\ schema' = schema
          /\ \A c \in Classes :
                Merged(schema', c).attrs \cap Merged(schema', c).blobs = {}]_vars

\* C24: serializing a blob and deserializing the output into a new instance
\* of the same schema gives the same value for every field, an unset field
\* included, and no serialize or deserialize hook is called with Unset
C24_RoundTripKeepsValues ==
  last.op = "roundtrip" =>
    /\ last.copy.ok
    /\ \A k \in DOMAIN last.blob.vals : last.copy.vals[k] = last.blob.vals[k]
    /\ \A k \in DOMAIN last.blob.blobs.sub.vals :
         last.copy.blobs.sub.vals[k] = last.blob.blobs.sub.vals[k]
    /\ DOMAIN last.copy.vals = DOMAIN last.blob.vals
    /\ DOMAIN last.copy.blobs.sub.vals = DOMAIN last.blob.blobs.sub.vals
    /\ Unset \notin last.hooked

C24_Witness ==
  /\ last.op = "roundtrip"
  /\ last.blob.vals["q"] = Unset
  /\ last.copy.vals["q"] = Unset
  /\ last.blob.vals["p"] = Box(1)
  /\ last.copy.blobs.sub.vals["r"] = Str123
  /\ last.hooked = {Box(1), Str123}

\* C25: deserialize commits every entry of the data that names a field,
\* without validating it, deserializes every entry that names a sub-blob
\* into that sub-blob, and an entry that names neither raises nothing and
\* changes no field
C25_DeserializeCommitsUnvalidated ==
  last.op = "deserialize" =>
    /\ last.after.ok
    /\ DOMAIN last.after.vals = DOMAIN last.blob.vals
    /\ \A k \in DOMAIN last.blob.vals :
         last.after.vals[k] = IF k \in DOMAIN last.data.s THEN last.data.s[k]
                              ELSE last.blob.vals[k]
    /\ DOMAIN last.after.blobs = DOMAIN last.blob.blobs
    /\ DOMAIN last.after.blobs.sub.vals = DOMAIN last.blob.blobs.sub.vals
    /\ \A k \in DOMAIN last.blob.blobs.sub.vals :
         last.after.blobs.sub.vals[k] =
           IF "sub" \in DOMAIN last.data.n /\ k \in DOMAIN last.data.n.sub.s
             THEN last.data.n.sub.s[k]
             ELSE last.blob.blobs.sub.vals[k]

C25_Witness ==
  /\ last.op = "deserialize"
  /\ DOMAIN last.data.s = {"p", "junk"}
  /\ last.data.s["p"] = Str123
  /\ last.blob.vals["p"] = Box(1)
  /\ last.after.vals["p"] = Str123
  /\ last.after.vals["q"] = last.blob.vals["q"]
  /\ "sub" \in DOMAIN last.data.n
  /\ DOMAIN last.data.n.sub.s = {"r", "junk"}
  /\ last.data.n.sub.s["r"] = Box(1)
  /\ last.blob.blobs.sub.vals["r"] = Unset
  /\ last.after.blobs.sub.vals["r"] = Box(1)

\* C26: every entity has an identifier from its construction on, and no
\* operation (field write, flag or tag change, save, load, find, revert,
\* clone, delete, sweep) changes the identifier of an entity that exists
\* before and after it
C26_UidNeverChanges ==
  [][/\ \A o \in DOMAIN ents' : ents'[o].uid # NoUid
     /\ \A o \in DOMAIN ents \cap DOMAIN ents' : ents'[o].uid = ents[o].uid]_vars

C26_Witness ==
  /\ last.op = "revert" /\ last.ok
  /\ ents[last.obj].uid # NoUid
  /\ store[Key(ents[last.obj])].uid = ents[last.obj].uid
  /\ \E o \in DOMAIN ents : o # last.obj /\ ents[o].uid # ents[last.obj].uid

\* C27: the cache never holds more entries than its capacity; a new entry
\* put into a full cache takes the place of the least recently used one (a
\* cache hit of load makes its entry the most recently used); an entity a
\* caller still holds survives its eviction, stays registered, and load of
\* its key returns it
C27_CacheBoundedLru ==
  [][/\ Len(cache') <= cache_size
     /\ (last'.op = "new" /\ ~CacheHas(cache, Key(ents'[last'.obj])))
          => cache' = <<[key |-> Key(ents'[last'.obj]), obj |-> last'.obj]>>
                        \o SubSeq(cache, 1, IF Len(cache) >= cache_size
                                              THEN cache_size - 1 ELSE Len(cache))
     /\ (last'.op = "load" /\ last'.src = "cache")
          => \E i \in 1..Len(cache) :
               /\ cache[i].key = last'.key
               /\ cache' = <<cache[i]>> \o SubSeq(cache, 1, i - 1)
                             \o SubSeq(cache, i + 1, Len(cache))
     /\ \A o \in Held :
          o \in CacheObjs(cache) \ CacheObjs(cache')
            => /\ o \in DOMAIN ents'
               /\ o \in InstObjs(instances) => o \in InstObjs(instances')
     /\ last'.op = "load"
          => \A o \in Held :
               (/\ Key(ents[o]) = last'.key
                /\ ~CacheHas(cache, last'.key)
                /\ \A p \in InstObjs(instances) :
                     Key(ents[p]) = last'.key <=> p = o)
                 => last'.obj = o]_vars

C27_Witness ==
  /\ last.op = "load" /\ last.src = "scan"
  /\ Len(cache) = cache_size /\ cache_size > 1
  /\ cache[1].obj = last.obj
  /\ last.obj \in Held
  /\ \E o \in Held \ CacheObjs(cache) : o \in InstObjs(instances)

\* the entities the last operation returned
Returned(l) ==
  IF l.op = "load" THEN {l.obj} \ {NoObj}
  ELSE IF l.op = "find" THEN l.found
  ELSE IF l.op = "all" THEN l.ret
  ELSE {}

C29_ConstructionKeepsCacheEntry ==
  [][\A o \in DOMAIN ents' \ DOMAIN ents :
       \A i \in 1..Len(cache) :
         cache[i].key = Key(ents'[o])
           => /\ CacheHas(cache', cache[i].key)
              /\ CachePeek(cache', cache[i].key) = cache[i].obj]_vars

\* C30 (as claimed): a room's key is unset while one of its coordinates is
\* unset; a room with coordinates (a, b, c) has the key "a,b,c"; and after
\* room.key = "a,b,c", no other room and no record being at those
\* coordinates, the room's coordinates are (a, b, c) and its key "a,b,c"
C30_RoomKeyRoundTrip ==
  [][/\ \A o \in DOMAIN ents' :
          (\E a \in {"x", "y", "z"} : ents'[o][a] = Unset)
            => Key(ents'[o]) = Unset
     /\ \A o \in DOMAIN ents' : \A a, b, c \in 0..(MaxX + 1) :
          (ents'[o].x = Box(a) /\ ents'[o].y = Box(b) /\ ents'[o].z = Box(c))
            => Key(ents'[o]) = <<DecDigits[a + 1], ",", DecDigits[b + 1], ",",
                                 DecDigits[c + 1]>>
     /\ (/\ last'.op = "key"
         /\ ~store_has(store, last'.key)
         /\ \A p \in DOMAIN ents \ {last'.obj} : Key(ents[p]) # last'.key)
          => /\ last'.ok
             /\ ents'[last'.obj].x = Box(DigitVal(last'.key[1]))
             /\ ents'[last'.obj].y = Box(DigitVal(last'.key[3]))
             /\ ents'[last'.obj].z = Box(DigitVal(last'.key[5]))
             /\ Key(ents'[last'.obj]) = last'.key]_vars

\* C31: save() of an entity that is not savable, or whose type has no store,
\* changes nothing: no record is deleted or written, the _old_key tag and
\* the dirty flag stay; a save of a savable entity with an _old_key tag
\* removes the record under the old key
C31_UnsavableSaveIsNoOp ==
  [][last'.op = "save" =>
       /\ ~is_savable(ents[last'.obj])
            => /\ store' = store
               /\ ents' = ents
               /\ cache' = cache
               /\ instances' = instances
       /\ (is_savable(ents[last'.obj]) /\ HasOldKey(ents[last'.obj]))
            => /\ ~HasOldKey(ents'[last'.obj])
               /\ ents[last'.obj].tags["_old_key"] # Key(ents[last'.obj])
                    => ~store_has(store', ents[last'.obj].tags["_old_key"])]_vars

C31_Witness ==
  /\ last.op = "save"
  /\ ~ents[last.obj].savable
  /\ ents[last.obj].dirty
  /\ HasOldKey(ents[last.obj])
  /\ store_has(store, ents[last.obj].tags["_old_key"])
  /\ ~store_has(store, Key(ents[last.obj]))

\* the positions of a hook or step in the trace of the last write
At(hook) == {i \in 1..Len(last.trace) : last.trace[i].hook = hook}

\* C32 (as claimed): every write that commits has called validate, then
\* finalize with validate's result, then committed finalize's result, and
\* calls _changed(old, new) after the commit, the cache relocation and dirty
C32_HooksInOrder ==
  (last.op = "hooks" /\ At("commit") # {}) =>
    /\ \E i \in At("validate"), j \in At("finalize"), k \in At("commit") :
         /\ i < j /\ j < k
         /\ last.trace[j].arg = NameValidate(last.trace[i].arg).value
         /\ last.trace[k].arg = last.trace[j].arg
    /\ \E k \in At("commit"), l \in At("changed") :
         /\ k < l
         /\ \A m \in At("relocate") \cup At("dirty") : m < l
         /\ last.trace[l].arg = <<last.old, last.trace[k].arg>>

\* C32 (amended): a write of a value other than Unset through the property
\* setter calls validate, then finalize with validate's result, then
\* commits finalize's result; a write of Unset calls neither, and a
\* deserialized entry is committed without validate and finalize; in every
\* case nothing follows a validate that raises, and _changed(old, new) is
\* called last, after the commit, the cache relocation and dirty
C32_HooksInOrderForSetter ==
  last.op = "hooks" =>
    /\ (last.via = "setter" /\ last.value # Unset /\ At("commit") # {})
         => \E i \in At("validate"), j \in At("finalize"), k \in At("commit") :
              /\ i < j /\ j < k
              /\ last.trace[j].arg = NameValidate(last.trace[i].arg).value
              /\ last.trace[k].arg = last.trace[j].arg
    /\ (last.via = "deserialize" \/ last.value = Unset)
         => /\ At("validate") = {} /\ At("finalize") = {}
            /\ \E k \in At("commit") : last.trace[k].arg = last.value
    /\ At("raise") # {} => At("commit") \cup At("changed") \cup At("finalize") = {}
    /\ At("commit") # {}
         => \E k \in At("commit") :
              /\ At("changed") = {Len(last.trace)}
              /\ k < Len(last.trace)
              /\ \A m \in At("relocate") \cup At("dirty") : k < m /\ m < Len(last.trace)
              /\ last.trace[Len(last.trace)].arg = <<last.old, last.trace[k].arg>>

C32_Witness ==
  /\ last.op = "hooks" /\ last.via = "setter"
  /\ last.value = <<"a", "b">> /\ last.old = Unset
  /\ Len(last.trace) = 6
  /\ last.trace[3].hook = "commit" /\ last.trace[3].arg = <<"A", "b">>
  /\ last.trace[6].hook = "changed"

\* the most derived classes among the classes of c's lineage that
\* registered the name
Winners(sch, c, name, what) ==
  {k \in Lineage(c) :
     /\ name \in sch[k][what]
     /\ \A d \in Lineage(c) \ {k} : name \in sch[d][what] => k \notin Lineage(d)}

\* C33: the value tree of a new instance holds exactly the fields and
\* sub-blobs registered on its class and on the classes it derives from;
\* every such class is applied exactly once, after the classes it derives
\* from; and an entry registered under the same name on several of them is
\* the one of a most derived class
C33_MergedSchemaDerivedWins ==
  [][last'.op = "build" =>
       /\ DOMAIN last'.attrs = UNION {schema[k].attrs : k \in Lineage(last'.cls)}
       /\ DOMAIN last'.blobs = UNION {schema[k].blobs : k \in Lineage(last'.cls)}
       /\ \A k \in Lineage(last'.cls) :
            Cardinality({i \in 1..Len(last'.order) : last'.order[i] = k}) = 1
       /\ \A i, j \in 1..Len(last'.order) :
            (i # j /\ last'.order[i] \in Lineage(last'.order[j])) => i < j
       /\ \A n \in DOMAIN last'.attrs :
            last'.attrs[n] \in Winners(schema, last'.cls, n, "attrs")
       /\ \A n \in DOMAIN last'.blobs :
            last'.blobs[n] \in Winners(schema, last'.cls, n, "blobs")]_vars

\* C33, without the fields registered under one name on a class and on a
\* class it derives from
C33_MergedSchema ==
  [][last'.op = "build" =>
       /\ DOMAIN last'.attrs = UNION {schema[k].attrs : k \in Lineage(last'.cls)}
       /\ DOMAIN last'.blobs = UNION {schema[k].blobs : k \in Lineage(last'.cls)}
       /\ \A k \in Lineage(last'.cls) :
            Cardinality({i \in 1..Len(last'.order) : last'.order[i] = k}) = 1
       /\ \A i, j \in 1..Len(last'.order) :
            (i # j /\ last'.order[i] \in Lineage(last'.order[j])) => i < j
       /\ \A n \in DOMAIN last'.blobs :
            last'.blobs[n] \in Winners(schema, last'.cls, n, "blobs")]_vars

C33_Witness ==
  /\ last.op = "build" /\ last.cls = "Leaf" /\ Len(last.order) = 4
  /\ DOMAIN last.blobs = {"a", "b"}
  /\ last.blobs["a"] = "Left" /\ last.blobs["b"] = "Right"

\* the key cache maps a key to an entity whose key is another
CacheStale(c, es) == \E i \in 1..Len(c) : Key(es[c[i].obj]) # c[i].key

\* C34: while every write ran to its end before the next began, no state
\* between writes has a key cache entry whose entity has another key (the
\* witness is such a state, reached by alternating the steps of two writes)
C34_SequentialWritesKeepCache ==
  (AllIdle /\ ~writers.mixed) => ~CacheStale(cache, ents)

C34_Witness == AllIdle /\ writers.mixed /\ CacheStale(cache, ents)

\* C35: in every state reached by operations run one at a time, the key
\* cache maps a key only to an entity whose key it is
C35_CacheEntriesConsistent == ~CacheStale(cache, ents)

C35_Witness ==
  /\ last.op = "set" /\ last.ok
  /\ last.old_key # Unset /\ Key(ents[last.obj]) # last.old_key
  /\ CacheMaps(Key(ents[last.obj]), last.obj)
  /\ Len(cache) = 2

\* C36: every live entity is the instance the weak registry holds under its
\* identifier, and so is every entity of the key cache; hence no two live
\* entities carry one identifier
C36_OneInstancePerUid ==
  /\ \A o \in DOMAIN ents :
       InstHas(instances, ents[o].uid) /\ InstGet(instances, ents[o].uid) = o
  /\ \A i \in 1..Len(cache) :
       /\ InstHas(instances, ents[cache[i].obj].uid)
       /\ InstGet(instances, ents[cache[i].obj].uid) = cache[i].obj

\* C37: a record that save() removes from the store carries the identifier
\* of the entity that is saved
C37_SaveDeletesOwnRecordOnly ==
  [][last'.op = "save" =>
       \A k \in DOMAIN store :
         k \notin DOMAIN store' => store[k].uid = ents[last'.obj].uid]_vars

\* C38: a clone that succeeds leaves the original as it was, also as the
\* key cache's entry under its key, and does not write the store; the save
\* of the clone that follows adds the record under the new key and changes
\* no other
C38_CloneLeavesOriginal ==
  [][/\ (last'.op = "clone" /\ last'.ok /\ Key(ents[last'.obj]) # Unset) =>
          /\ ents'[last'.obj] = ents[last'.obj]
          /\ store' = store
          /\ CacheMaps(Key(ents[last'.obj]), last'.obj) =>
               /\ CacheHas(cache', Key(ents[last'.obj]))
               /\ CachePeek(cache', Key(ents[last'.obj])) = last'.obj
     /\ (last.op = "clone" /\ last.ok /\ last'.op = "save" /\ last'.obj = last.made) =>
          /\ DOMAIN store' = DOMAIN store \cup {last.new_key}
          /\ \A k \in DOMAIN store : store'[k] = store[k]]_vars

\* C39: when a write changes an entity's key, the cache slot under the old
\* key held that entity or nothing, and so did the slot under the new key
C39_WriteTouchesOwnSlotsOnly ==
  [][(last'.op = "set" /\ last'.ok /\ Key(ents'[last'.obj]) # last'.old_key) =>
       /\ CacheHas(cache, last'.old_key)
            => CachePeek(cache, last'.old_key) = last'.obj
       /\ CacheHas(cache, Key(ents'[last'.obj]))
            => CachePeek(cache, Key(ents'[last'.obj])) = last'.obj]_vars

\* the store holds the entity's serialization under its key
Recorded(s, e) == store_has(s, Key(e)) /\ s[Key(e)] = Serialize(e)

\* C40: save leaves a savable entity clean with its serialization in the
\* store under its key, and a savable entity that is clean and so recorded
\* stays recorded for as long as it is clean: the sweep, which skips clean
\* entities, never skips one that differs from the store or is missing there
C40_DirtyTrackingSound ==
  [][/\ (last'.op = "save" /\ is_savable(ents'[last'.obj])) =>
          ~ents'[last'.obj].dirty /\ Recorded(store', ents'[last'.obj])
     /\ \A o \in DOMAIN ents \cap DOMAIN ents' :
          (/\ is_savable(ents[o]) /\ ~ents[o].dirty /\ Recorded(store, ents[o])
           /\ is_savable(ents'[o]) /\ ~ents'[o].dirty)
            => Recorded(store', ents'[o])]_vars

====
